---- MODULE Spec2Model ----
(***************************************************************************)
(* A model of the OI governed execution corridor (kernel-go):              *)
(*   CIF ingress -> CDI decision -> token mint -> adapter -> CDI output    *)
(*   -> CIF egress, with the system state, the capability tokens, the      *)
(*   adapter registry, the mock adapter and the audit ledger.              *)
(*                                                                         *)
(* Text is a sequence of fragments (a fragment stands for a run of bytes), *)
(* so that substring scans are contiguous-subsequence scans.  A SHA-256    *)
(* digest is the tuple of the values that are hashed: two digests are      *)
(* equal exactly when the hashed bytes are equal.  Time is in seconds      *)
(* (Token.computeDigest hashes IssuedAt.Unix()).                           *)
(***************************************************************************)
EXTENDS Integers, Sequences, FiniteSets, TLC

\* ------------------------------------------------------------------ bounds
\* Operations started in one run: calls of Execute, ExecuteCorridor, Decide,
\* Registry.Invoke, Registry.Register, MockAdapter.Invoke, Mint, RevokeAllTokens
\* and SetIntegrityState, and clock ticks.
MaxOps == 3

\* The goroutines that call into the kernel.  One goroutine makes the calls;
\* RevokeAllTokens, SetIntegrityState and the clock run beside it at every step.
Procs == {"p1"}

\* ------------------------------------------------------- program constants
\* Token.RevokedAt == nil
NoTime == -1
\* 5*time.Minute, in seconds
KernelTTL == 300
\* posture bound of every kernel token: P4
MaxPostureBound == 4
\* 100*1024 bytes
MaxInputBytes == 102400
\* posture.P1, the posture of a new system state
P1 == 1
\* posture.P0 (undefined) and P2..P4
P0 == 0
P2 == 2
P3 == 3
P4 == 4
\* Execute's leak budget: 10KB
KernelLeakBudget == 10000

IntegrityOK == "INTEGRITY_OK"
IntegrityDegraded == "INTEGRITY_DEGRADED"
IntegrityVoid == "INTEGRITY_VOID"
IntegrityStates == {IntegrityOK, IntegrityDegraded, IntegrityVoid}

ALLOW == "ALLOW"
DENY == "DENY"
DEGRADE == "DEGRADE"

\* GovernanceCapsule.Rules: a nil map, or a map (here: its set of keys).
NilRules == "nil"
NoRules == "empty"
SomeRules == "exists"

\* -------------------------------------------------------------------- text
RECURSIVE SumBytes(_)
\* The byte length of a fragment: BLOB stands for 100 KiB + 1 bytes of text.
FragBytes(f) == IF f = "BLOB" THEN MaxInputBytes + 1 ELSE 1

SumBytes(s) == IF s = <<>> THEN 0 ELSE FragBytes(Head(s)) + SumBytes(Tail(s))

\* strings.ToLower on a fragment
Lower(f) ==
    CASE f = "SYS" -> "sys"
      [] f = "[INST]" -> "[inst]"
      [] f = "[/INST]" -> "[/inst]"
      [] f = "IGNORE PREVIOUS INSTRUCTIONS" -> "ignore previous instructions"
      [] OTHER -> f

ToLower(s) == [i \in 1..Len(s) |-> Lower(s[i])]

\* strings.Contains
Contains(s, pat) ==
    \E i \in 0..(Len(s) - Len(pat)) :
        \A j \in 1..Len(pat) : s[i + j] = pat[j]

\* The control characters sanitizeInput removes (r < 32, not \n, not \t).
IsControl(f) == f = "\\x01"

RECURSIVE sanitizeInput(_)
sanitizeInput(s) ==
    IF s = <<>> THEN <<>>
    ELSE IF IsControl(Head(s)) THEN sanitizeInput(Tail(s))
         ELSE <<Head(s)>> \o sanitizeInput(Tail(s))

ImpersonationPatterns ==
    { <<"sys", "tem:">>, <<"assistant:">>, <<"<|im_start|>">>, <<"<|im_end|>">>,
      <<"[INST]">>, <<"[/INST]">>, <<"### Instruction:">>, <<"### System:">> }

PressurePatterns ==
    { <<"urgent">>, <<"emergency">>, <<"immediately">>, <<"override">>,
      <<"ignore previous">>, <<"disregard">> }

detectTaint(input) ==
    LET lowerInput == ToLower(input)
        smuggle == \E p \in ImpersonationPatterns : Contains(lowerInput, ToLower(p))
        pressure == \E p \in PressurePatterns : Contains(lowerInput, p)
        l1 == IF smuggle THEN <<"instruction_smuggling_attempt">> ELSE <<>>
        l2 == IF pressure THEN l1 \o <<"pressure_tactic">> ELSE l1
    IN  IF l2 = <<>> THEN <<"clean">> ELSE l2

\* metadata["sensitivity"] when present, else "low"; NoMeta: the key is absent
NoMeta == "(absent)"
assessSensitivity(meta) == IF meta = NoMeta THEN "low" ELSE meta

Sha256(x) == <<"sha256", x>>

IngressFails(rawInput) == SumBytes(rawInput) = 0 \/ SumBytes(rawInput) > MaxInputBytes

\* Fault: the labeled request carries the sanitized input where its hash
\* belongs.
IngressUnhashed(rawInput, meta) ==
    [ SanitizedInput   |-> sanitizeInput(rawInput),
      TaintLabels      |-> detectTaint(rawInput),
      SensitivityLevel |-> assessSensitivity(meta),
      InputHash        |-> sanitizeInput(rawInput) ]

Ingress(rawInput, meta) ==
    [ SanitizedInput   |-> sanitizeInput(rawInput),
      TaintLabels      |-> detectTaint(rawInput),
      SensitivityLevel |-> assessSensitivity(meta),
      InputHash        |-> Sha256(sanitizeInput(rawInput)) ]

IsTainted(lr) == \E i \in 1..Len(lr.TaintLabels) : lr.TaintLabels[i] # "clean"

\* ---------------------------------------------------------------- decision
Result(d, reason, scope, posture) ==
    [ Decision |-> d, Reason |-> reason, DegradedScope |-> scope,
      RequiredPosture |-> posture ]

hasConsent(consents, required) == required \in consents

NoLabeled == [ SanitizedInput |-> <<>>, TaintLabels |-> <<>>,
               SensitivityLevel |-> "", InputHash |-> <<>> ]

\* The nil *DecisionContext: no DecisionContext has been built.
NoCtx == [ Request |-> NoLabeled, PostureLevel |-> 0, GovernanceRules |-> "",
           IntegrityState |-> "", ActiveConsents |-> {} ]

\* Fault: the sensitivity medium is looked at before the integrity state.
evaluateRequestMediumFirst(ctx) ==
    LET sensitivity == ctx.Request.SensitivityLevel IN
    IF sensitivity = "high" /\ ~hasConsent(ctx.ActiveConsents, "high_risk_operations")
    THEN Result(DENY, "high_risk_requires_consent", <<>>, 0)
    ELSE IF sensitivity = "medium"
    THEN Result(DEGRADE, "medium_sensitivity", <<"query", "search", "read">>, ctx.PostureLevel)
    ELSE IF ctx.IntegrityState = IntegrityDegraded
    THEN Result(DEGRADE, "integrity_degraded", <<"read_only", "query">>, ctx.PostureLevel)
    ELSE IF sensitivity = "low" /\ ~IsTainted(ctx.Request)
    THEN Result(ALLOW, "clean_low_sensitivity", <<"*">>, ctx.PostureLevel)
    ELSE Result(DENY, "unknown_case", <<>>, 0)

evaluateRequest(ctx) ==
    LET sensitivity == ctx.Request.SensitivityLevel IN
    IF sensitivity = "high" /\ ~hasConsent(ctx.ActiveConsents, "high_risk_operations")
    THEN Result(DENY, "high_risk_requires_consent", <<>>, 0)
    ELSE IF ctx.IntegrityState = IntegrityDegraded
    THEN Result(DEGRADE, "integrity_degraded", <<"read_only", "query">>, ctx.PostureLevel)
    ELSE IF sensitivity = "low" /\ ~IsTainted(ctx.Request)
    THEN Result(ALLOW, "clean_low_sensitivity", <<"*">>, ctx.PostureLevel)
    ELSE IF sensitivity = "medium"
    THEN Result(DEGRADE, "medium_sensitivity", <<"query", "search", "read">>, ctx.PostureLevel)
    ELSE Result(DENY, "unknown_case", <<>>, 0)

\* Fault: the check of the rule set is left out.
DecideSkipsGovernance(ctx) ==
    IF ctx.IntegrityState = IntegrityVoid THEN Result(DENY, "integrity_void", <<>>, 0)
    ELSE IF IsTainted(ctx.Request) THEN Result(DENY, "tainted_input", <<>>, 0)
    ELSE IF ctx.PostureLevel = 0 THEN Result(DENY, "undefined_posture", <<>>, 0)
    ELSE evaluateRequest(ctx)

\* Fault: the check of the posture is left out.
DecideSkipsPosture(ctx) ==
    IF ctx.IntegrityState = IntegrityVoid THEN Result(DENY, "integrity_void", <<>>, 0)
    ELSE IF IsTainted(ctx.Request) THEN Result(DENY, "tainted_input", <<>>, 0)
    ELSE IF ctx.GovernanceRules = NilRules THEN Result(DENY, "missing_governance", <<>>, 0)
    ELSE evaluateRequest(ctx)

\* The error Decide returns with its result: only the nil context has one.
DecideError(ctx) == IF ctx = NoCtx THEN "nil decision context" ELSE ""

Decide(ctx) ==
    IF ctx = NoCtx THEN Result(DENY, "nil context", <<>>, 0)
    ELSE IF ctx.IntegrityState = IntegrityVoid THEN Result(DENY, "integrity_void", <<>>, 0)
    ELSE IF IsTainted(ctx.Request) THEN Result(DENY, "tainted_input", <<>>, 0)
    ELSE IF ctx.PostureLevel = 0 THEN Result(DENY, "undefined_posture", <<>>, 0)
    ELSE IF ctx.GovernanceRules = NilRules THEN Result(DENY, "missing_governance", <<>>, 0)
    ELSE evaluateRequest(ctx)

containsBypassPatterns(content) == FALSE

DecideOutput(content, sensitivity, postureLevel) ==
    IF sensitivity = "high" /\ postureLevel >= 2
    THEN Result(DENY, "high_sensitivity_blocked_by_posture", <<>>, 0)
    ELSE IF containsBypassPatterns(content)
    THEN Result(DENY, "bypass_instruction_in_output", <<>>, 0)
    ELSE Result(ALLOW, "output_approved", <<>>, 0)

\* ----------------------------------------------------------------- posture
\* posture.IsValid
IsValid(level) == level >= P1 /\ level <= P4

\* Fault: high risk needs confirmation at P2 only.
RequiresConfirmationAtP2Only(level, operationRisk) ==
    IF level = P0 THEN TRUE
    ELSE CASE operationRisk = "high" -> level = P2
           [] operationRisk = "medium" -> level >= P3
           [] operationRisk = "low" -> level >= P4
           [] OTHER -> TRUE

\* posture.RequiresConfirmation
RequiresConfirmation(level, operationRisk) ==
    IF level = P0 THEN TRUE
    ELSE CASE operationRisk = "high" -> level >= P2
           [] operationRisk = "medium" -> level >= P3
           [] operationRisk = "low" -> level >= P4
           [] OTHER -> TRUE

\* posture.FailClosed
FailClosed(level, operationRisk) == level = P0 /\ operationRisk = "high"

\* ------------------------------------------------------------------ egress
RECURSIVE TakeBytes(_, _)
\* content[:budget]: the fragments that fit, then the cut part of the next one
TakeBytes(content, budget) ==
    IF content = <<>> \/ budget <= 0 THEN <<>>
    ELSE IF FragBytes(Head(content)) <= budget
    THEN <<Head(content)>> \o TakeBytes(Tail(content), budget - FragBytes(Head(content)))
    ELSE << <<"cut", Head(content), budget>> >>

redactOverBudget(content, budget) ==
    IF SumBytes(content) <= budget THEN content
    ELSE TakeBytes(content, budget) \o <<"\n[REDACTED: leak budget exceeded]">>

shouldRedactByPosture(sensitivity, posture) ==
    CASE sensitivity = "high" -> posture >= 2
      [] sensitivity = "medium" -> posture >= 3
      [] sensitivity = "low" -> FALSE
      [] OTHER -> TRUE

redactSensitive(content) ==
    <<"[REDACTED: sensitive content filtered by posture constraint]">>

BypassPatterns ==
    { <<"ignore previous instructions">>, <<"disregard the above">>,
      <<"new instructions:">>, <<"sys", "tem prompt:">>, <<"<|im_start|>">>,
      <<"override security">> }

containsBypassInstructions(content) ==
    \E p \in BypassPatterns : Contains(ToLower(content), p)

stripBypassInstructions(content) ==
    <<"[OUTPUT BLOCKED: bypass instruction pattern detected]">>

\* Fault: the output is not scanned for bypass instructions.
EgressUnscanned(content, sensitivity, leakBudgetUsed, postureLevel, leakBudget) ==
    LET c1 == IF leakBudgetUsed > leakBudget
              THEN redactOverBudget(content, leakBudget) ELSE content
    IN  IF shouldRedactByPosture(sensitivity, postureLevel) THEN redactSensitive(c1) ELSE c1

\* The Content of the UserResponse that Egress returns.
Egress(content, sensitivity, leakBudgetUsed, postureLevel, leakBudget) ==
    LET c1 == IF leakBudgetUsed > leakBudget
              THEN redactOverBudget(content, leakBudget) ELSE content
        c2 == IF shouldRedactByPosture(sensitivity, postureLevel)
              THEN redactSensitive(c1) ELSE c1
    IN  IF containsBypassInstructions(c2) THEN stripBypassInstructions(c2) ELSE c2

\* ------------------------------------------------------------------ tokens
\* Limits{MaxDepth, MaxBudget}
KernelLimits == <<10, 1000>>
TestLimits == <<10, 100>>

computeDigest(t) ==
    Sha256(<<t.Issuer, t.Subject, t.Audience, t.Scope, t.Limits,
             t.IssuedAt, t.ExpiresAt, t.NamespaceID, t.PrincipalID>>)

\* capabilities.Mint at clock reading t0
Mint(issuer, subject, audience, scope, limits, ttl, minPosture, maxPosture, namespaceID, principalID, t0) ==
    LET t == [ Issuer |-> issuer, Subject |-> subject, Audience |-> audience,
               Scope |-> scope, Limits |-> limits, TTL |-> ttl,
               IssuedAt |-> t0, ExpiresAt |-> t0 + ttl,
               MinPosture |-> minPosture, MaxPosture |-> maxPosture,
               NamespaceID |-> namespaceID, PrincipalID |-> principalID,
               RevokedAt |-> NoTime ]
    IN  t @@ [ Digest |-> computeDigest(t) ]

\* Fault: the expiry is checked before the revocation.
VerifyExpiryFirst(t, seenRevoked, currentPosture, t0) ==
    IF t0 > t.ExpiresAt THEN "expired"
    ELSE IF seenRevoked THEN "revoked"
    ELSE IF currentPosture < t.MinPosture THEN "posture_below_minimum"
    ELSE IF currentPosture > t.MaxPosture THEN "posture_above_maximum"
    ELSE ""

\* Token.Verify, given what the read of RevokedAt returned and the clock.
\* "" is (true, nil); otherwise the kind of the error.
Verify(t, seenRevoked, currentPosture, t0) ==
    IF seenRevoked THEN "revoked"
    ELSE IF t0 > t.ExpiresAt THEN "expired"
    ELSE IF currentPosture < t.MinPosture THEN "posture_below_minimum"
    ELSE IF currentPosture > t.MaxPosture THEN "posture_above_maximum"
    ELSE ""

HasScope(t, operation) == \E i \in 1..Len(t.Scope) : t.Scope[i] = operation

\* Token.Revoke at clock reading t0
Revoke(t, t0) == [ t EXCEPT !.RevokedAt = t0 ]

\* Fault: the token gets the full scope whatever the decision's scope is.
mintFullScope(decision) == <<"*">>

\* mintToken's scope: the decision's scope, or "*" when it has none
mintScope(decision) ==
    IF Len(decision.DegradedScope) = 0 THEN <<"*">> ELSE decision.DegradedScope

\* ------------------------------------------------------------ mock adapter
MockAdapterName == "mock_adapter"

\* MockAdapter.VerifyToken; tok = 0 is the nil token. "" is a nil error.
VerifyToken(heap, tok, seenRevoked, currentPosture, t0) ==
    IF tok = 0 THEN "nil token"
    ELSE IF Verify(heap[tok], seenRevoked, currentPosture, t0) # ""
    THEN Verify(heap[tok], seenRevoked, currentPosture, t0)
    ELSE IF ~HasScope(heap[tok], MockAdapterName) /\ ~HasScope(heap[tok], "*")
    THEN "no scope for adapter"
    ELSE ""

\* MockAdapter.Invoke's own check before it records the invocation.
InvokeRejects(heap, tok) == tok = 0

\* ------------------------------------------------------------------ ledger
GenesisPrevHash == "0000000000000000"

\* The words of a string that Sprintf's %v prints: a string with a space in it
\* prints as the words on either side of the space.
Words(s) == IF s = "scope1 scope2" THEN <<"scope1", "scope2">> ELSE <<s>>

\* %v of a []string: its elements separated by single spaces, so the words of
\* all the elements in a row.
RECURSIVE FormatSlice(_)
FormatSlice(v) == IF v = <<>> THEN <<>> ELSE Words(Head(v)) \o FormatSlice(Tail(v))

\* The one []string among the values the Append* methods store: the scope of
\* a token_mint event (the scope of a memory_write event is a string).
IsSlice(data, key) == key = "scope" /\ "token_digest" \in DOMAIN data

\* %v of the event data: its keys in order, each with its printed value. A
\* []string prints as above; strings, numbers and booleans print as themselves.
FormatMap(data) ==
    [ k \in DOMAIN data |-> IF IsSlice(data, k) THEN FormatSlice(data[k]) ELSE data[k] ]

\* The hash of "%d|%d|%s|%v|%s" of the five fields.
computeHash(r) ==
    Sha256(<<r.Sequence, r.Timestamp, r.EventType, FormatMap(r.EventData), r.PrevHash>>)

WithHash(r) == r @@ [ CurrentHash |-> computeHash(r) ]

\* NewLedger at clock reading t0
NewLedger(t0) ==
    << WithHash([ Sequence |-> 0, Timestamp |-> t0, EventType |-> "genesis",
                  EventData |-> [ message |-> "audit ledger initialized" ],
                  PrevHash |-> GenesisPrevHash, call |-> 0 ]) >>

\* Fault: l.sequence is not incremented.
LedgerAppendStaleSequence(ledger, eventType, eventData, t0, call) ==
    Append(ledger,
           WithHash([ Sequence |-> Len(ledger) - 1, Timestamp |-> t0,
                      EventType |-> eventType, EventData |-> eventData,
                      PrevHash |-> IF Len(ledger) > 0
                                   THEN ledger[Len(ledger)].CurrentHash
                                   ELSE GenesisPrevHash,
                      call |-> call ]))

\* Ledger.append: the ledger after the append (l.sequence is Len(ledger) - 1).
\* call: the call the receipt belongs to (not part of the receipt's data).
LedgerAppend(ledger, eventType, eventData, t0, call) ==
    Append(ledger,
           WithHash([ Sequence |-> (Len(ledger) - 1) + 1, Timestamp |-> t0,
                      EventType |-> eventType, EventData |-> eventData,
                      PrevHash |-> IF Len(ledger) > 0
                                   THEN ledger[Len(ledger)].CurrentHash
                                   ELSE GenesisPrevHash,
                      call |-> call ]))

AppendCDIDecision(ledger, decision, inputHash, outputHash, t0, call) ==
    LedgerAppend(ledger, "cdi_decision",
                 [ decision |-> decision, input_hash |-> inputHash,
                   output_hash |-> outputHash ], t0, call)

\* Fault: AddToken without its receipt.
TokenMintUnlogged(ledger, tokenDigest, scope, t0, call) == ledger

AppendTokenMint(ledger, tokenDigest, scope, t0, call) ==
    LedgerAppend(ledger, "token_mint",
                 [ token_digest |-> tokenDigest, scope |-> scope ], t0, call)

AppendAdapterAttempt(ledger, adapterName, accepted, tokenDigest, t0, call) ==
    LedgerAppend(ledger, "adapter_attempt",
                 [ adapter |-> adapterName, accepted |-> accepted,
                   token_digest |-> tokenDigest ], t0, call)

AppendIntegrityStateChange(ledger, newState, t0, call) ==
    LedgerAppend(ledger, "integrity_state_change", [ new_state |-> newState ], t0, call)

AppendStopEvent(ledger, tokensRevoked, t0, call) ==
    LedgerAppend(ledger, "stop_event", [ tokens_revoked |-> tokensRevoked ], t0, call)

AppendMemoryWrite(ledger, partition, scope, contentHash, t0, call) ==
    LedgerAppend(ledger, "memory_write",
                 [ partition |-> partition, scope |-> scope,
                   content_hash |-> contentHash ], t0, call)

AppendPostureChange(ledger, fromLevel, toLevel, reason, t0, call) ==
    LedgerAppend(ledger, "posture_change",
                 [ from_level |-> fromLevel, to_level |-> toLevel, reason |-> reason ],
                 t0, call)

\* Ledger.Verify: "" is (true, nil), otherwise the kind of the error, which is
\* that of the first receipt that fails, its hash being checked before its link.
LedgerVerify(ledger) ==
    LET failure(i) ==
            IF ledger[i].CurrentHash # computeHash(ledger[i]) THEN "hash mismatch"
            ELSE IF i > 1 /\ ledger[i].PrevHash # ledger[i - 1].CurrentHash
            THEN "chain break"
            ELSE ""
        failing == { i \in DOMAIN ledger : failure(i) # "" }
    IN  IF Len(ledger) = 0 THEN "empty ledger"
        ELSE IF failing = {} THEN ""
        ELSE failure(CHOOSE i \in failing : \A j \in failing : i <= j)

\* Ledger.GetReceipts: a new slice with a copy of each Receipt struct. The copy
\* of a struct holds the same map as the original: EventData of the copy is
\* the number of the ledger's receipt whose map it is.
GetReceipts(ledger) == [ i \in DOMAIN ledger |-> [ ledger[i] EXCEPT !.EventData = i ] ]

\* ------------------------------------------------------------------ memory
PartitionEphemeral == "ephemeral"
PartitionDurable == "durable"
PartitionCommitments == "commitments"
PartitionProvenance == "provenance"
PartitionQuarantine == "quarantine"
PartitionEvidence == "evidence"

PartitionPolicy(allowWrite, allowRead, requireCapability, appendOnly) ==
    [ AllowWrite |-> allowWrite, AllowRead |-> allowRead,
      RequireCapability |-> requireCapability, AppendOnly |-> appendOnly ]

\* A Partition; Entries maps the ids present to their entries.
Partition(name, policy) == [ Name |-> name, Entries |-> <<>>, Policy |-> policy ]

\* NewManager: m.partitions
NewManager ==
    (PartitionEphemeral :> Partition(PartitionEphemeral, PartitionPolicy(TRUE, TRUE, FALSE, FALSE)))
    @@ (PartitionDurable :> Partition(PartitionDurable, PartitionPolicy(TRUE, TRUE, TRUE, FALSE)))
    @@ (PartitionCommitments :> Partition(PartitionCommitments, PartitionPolicy(TRUE, TRUE, TRUE, FALSE)))
    @@ (PartitionProvenance :> Partition(PartitionProvenance, PartitionPolicy(TRUE, TRUE, FALSE, TRUE)))
    @@ (PartitionQuarantine :> Partition(PartitionQuarantine, PartitionPolicy(TRUE, FALSE, FALSE, TRUE)))
    @@ (PartitionEvidence :> Partition(PartitionEvidence, PartitionPolicy(TRUE, TRUE, TRUE, TRUE)))

\* currentTimestamp()
currentTimestamp == 0

\* The nil metadata map; Write puts an empty map in its place.
NilMetadata == <<>>

Entry(id, partition, content, contentHash, metadata, verified) ==
    [ ID |-> id, Partition |-> partition, Content |-> content,
      ContentHash |-> contentHash, Metadata |-> metadata,
      Timestamp |-> currentTimestamp, Verified |-> verified ]

\* The error Manager.Write returns; "" is nil.
WriteError(m, partition, id) ==
    IF partition \notin DOMAIN m THEN "partition does not exist"
    ELSE IF ~m[partition].Policy.AllowWrite THEN "partition is read-only"
    ELSE IF m[partition].Policy.AppendOnly /\ id \in DOMAIN m[partition].Entries
    THEN "partition is append-only"
    ELSE ""

\* Fault: an id that is present is written again, append-only or not.
WriteOverwrites(m, partition, id, content, metadata) ==
    IF partition \notin DOMAIN m \/ ~m[partition].Policy.AllowWrite THEN m
    ELSE [ m EXCEPT ![partition].Entries =
               (id :> Entry(id, partition, content, Sha256(content),
                            IF metadata = NilMetadata THEN <<>> ELSE metadata, FALSE)) @@ @ ]

\* Manager.Write: m.partitions after the call.
Write(m, partition, id, content, metadata) ==
    IF WriteError(m, partition, id) # "" THEN m
    ELSE [ m EXCEPT ![partition].Entries =
               (id :> Entry(id, partition, content, Sha256(content),
                            IF metadata = NilMetadata THEN <<>> ELSE metadata, FALSE)) @@ @ ]

NoEntry == Entry("", "", "", "", <<>>, FALSE)

\* Fault: the partition's AllowRead is not looked at.
ReadUnguarded(m, partition, id) ==
    IF partition \notin DOMAIN m
    THEN [ entry |-> NoEntry, err |-> "partition does not exist" ]
    ELSE IF id \notin DOMAIN m[partition].Entries
    THEN [ entry |-> NoEntry, err |-> "entry not found" ]
    ELSE [ entry |-> m[partition].Entries[id], err |-> "" ]

\* Manager.Read: the entry and the error; "" is nil.
Read(m, partition, id) ==
    IF partition \notin DOMAIN m
    THEN [ entry |-> NoEntry, err |-> "partition does not exist" ]
    ELSE IF ~m[partition].Policy.AllowRead
    THEN [ entry |-> NoEntry, err |-> "partition is write-only" ]
    ELSE IF id \notin DOMAIN m[partition].Entries
    THEN [ entry |-> NoEntry, err |-> "entry not found" ]
    ELSE [ entry |-> m[partition].Entries[id], err |-> "" ]

\* The error Manager.PromoteFromQuarantine returns; "" is nil.
PromoteError(m, id, verificationRecord) ==
    IF id \notin DOMAIN m[PartitionQuarantine].Entries THEN "entry not found in quarantine"
    ELSE IF verificationRecord = "" THEN "promotion requires verification record"
    ELSE ""

\* The partitions after a promotion: the quarantine entry is marked verified
\* and gets the record in its metadata, and a new durable entry is made of it.
Promoted(m, id, verificationRecord) ==
    LET entry == m[PartitionQuarantine].Entries[id]
        metadata == ("verification_record" :> verificationRecord) @@ entry.Metadata
    IN  [ m EXCEPT
            ![PartitionQuarantine].Entries[id] =
                [ entry EXCEPT !.Verified = TRUE, !.Metadata = metadata ],
            ![PartitionDurable].Entries =
                (id :> Entry(entry.ID, PartitionDurable, entry.Content,
                             entry.ContentHash, metadata, TRUE)) @@ @ ]

\* Fault: a promotion without a verification record goes through.
PromoteWithoutRecord(m, id, verificationRecord) ==
    IF id \notin DOMAIN m[PartitionQuarantine].Entries THEN m
    ELSE Promoted(m, id, verificationRecord)

\* Manager.PromoteFromQuarantine: m.partitions after the call.
PromoteFromQuarantine(m, id, verificationRecord) ==
    IF PromoteError(m, id, verificationRecord) # "" THEN m
    ELSE Promoted(m, id, verificationRecord)

\* ------------------------------------------------------------ flourish.java
\* The gateway. A Java string is a sequence of fragments; null is the one
\* below, which no string of the model equals. A JSON value is <<type, text>>.
null == <<"(null)">>

\* Config
maxBodyBytes == 16384
consentTtlSeconds == 120
capTtlSeconds == 3600
nonceTtlSeconds == 300
rpmPerIp == 30
allowedContentTypes == { "application/json" }
blockPatterns ==
    { <<"ignore previous">>, <<"system prompt">>, <<"exfiltrate">>, <<"bypass">>,
      <<"jailbreak">> }
allowTools == { <<"echo">>, <<"time">> }
consentAudience == "oi-runtime"
capAudience == "oi-runtime"

\* String.toLowerCase(Locale.ROOT) on a fragment, and on a string.
toLowerCase(s) == [ i \in DOMAIN s |-> IF s[i] = "ECHO" THEN "echo" ELSE s[i] ]

JString(s) == <<"string", s>>
JNumber(s) == <<"number", s>>

RECURSIVE str(_)
\* MiniJson.str: a string is quoted and escaped, an object keeps the order of
\* its entries, the other values are written bare.
str(o) ==
    CASE o[1] = "string" -> <<"quoted", o[2]>>
      [] o[1] = "object" ->
            <<"object", [ i \in DOMAIN o[2] |-> <<o[2][i][1], str(o[2][i][2])>> ]>>
      [] OTHER -> <<"bare", o[2]>>

\* Collections.sort on the keys the action objects have.
SortedKeys == <<"args", "op", "prompt", "tool">>

\* canonicalJsonSorted: the top-level keys in order, each value as str writes it.
canonicalJsonSorted(payload) ==
    LET keys == SelectSeq(SortedKeys, LAMBDA k : k \in DOMAIN payload)
    IN  [ i \in DOMAIN keys |-> <<keys[i], str(payload[keys[i]])>> ]

sha256Hex(b) == Sha256(b)

computeActHash(canonicalActionJson) == sha256Hex(canonicalActionJson)

\* ---- Audit
\* audit.log: whether it exists, and its lines.
NoFile == [ exists |-> FALSE, lines |-> <<>> ]

\* Audit.sanitize
sanitize(s) ==
    IF s = null THEN <<>>
    ELSE [ i \in DOMAIN s |-> IF s[i] \in { "\n", "\r" } THEN " " ELSE s[i] ]

\* Audit.readLastHash: the fourth field of the last line; null for no line.
readLastHash(f) == IF f.lines = <<>> THEN null ELSE f.lines[Len(f.lines)].hash

\* String concatenation writes "null" for a null reference.
Concat(s) == IF s = null THEN <<"null">> ELSE s

\* Fault: the head moves only when the line has been written.
appendOrKeepHead(a, kind, msg, ts, writable) ==
    LET h == sha256Hex(<<a.head, kind, Concat(msg), ts>>)
        line == [ ts |-> ts, kind |-> kind, prev |-> a.head, hash |-> h,
                  msg |-> sanitize(msg) ]
    IN  IF writable
        THEN [ head |-> h, file |-> [ exists |-> TRUE, lines |-> Append(a.file.lines, line) ] ]
        ELSE a

\* Audit.append at clock reading ts, under the lock: the Audit's head and the
\* file afterwards. The IOException of a failed write is swallowed. The hash
\* returned is the new head.
append(a, kind, msg, ts, writable) ==
    LET h == sha256Hex(<<a.head, kind, Concat(msg), ts>>)
        line == [ ts |-> ts, kind |-> kind, prev |-> a.head, hash |-> h,
                  msg |-> sanitize(msg) ]
    IN  [ head |-> h,
          file |-> IF writable
                   THEN [ exists |-> TRUE, lines |-> Append(a.file.lines, line) ]
                   ELSE a.file ]

\* Audit.canPersist: opening the file for append creates it.
canPersist(f, writable) == IF writable THEN [ f EXCEPT !.exists = TRUE ] ELSE f

GENESIS == <<"GENESIS">>

\* new Audit(path) at clock reading ts.
Audit(f, ts, writable) ==
    IF f.exists
    THEN [ head |-> IF readLastHash(f) # null THEN readLastHash(f) ELSE GENESIS,
           file |-> f ]
    ELSE append([ head |-> GENESIS, file |-> f ], "GENESIS", <<"start">>, ts, writable)

\* ---- RateLimiter: a bucket's tokens are counted in 60000ths of a token, so
\* that refillPerMs = cap / 60000 tokens is cap units.
PerMinute == 60000

\* this.cap = Math.max(5, rpm)
Cap(rpm) == IF rpm > 5 THEN rpm ELSE 5

Bucket(t, ms) == [ tokens |-> t, lastMs |-> ms ]

\* map.computeIfAbsent(key, k -> new Bucket(cap, now))
computeIfAbsent(map, key, cap, nowMs) ==
    IF key \in DOMAIN map THEN map ELSE (key :> Bucket(cap * PerMinute, nowMs)) @@ map

\* Fault: the bucket is refilled without the cap and a token is taken in any case.
allowUnchecked(b, cap, nowMs) ==
    [ bucket |-> Bucket(b.tokens + (nowMs - b.lastMs) * cap - PerMinute, nowMs),
      ok |-> TRUE ]

\* RateLimiter.allow, the synchronized block, for the clock reading nowMs
\* taken before it: the bucket afterwards and the result.
allow(b, cap, nowMs) ==
    LET dt == nowMs - b.lastMs
        sum == b.tokens + dt * cap
        r == IF dt > 0
             THEN Bucket(IF sum > cap * PerMinute THEN cap * PerMinute ELSE sum, nowMs)
             ELSE b
    IN  IF r.tokens >= PerMinute
        THEN [ bucket |-> [ r EXCEPT !.tokens = @ - PerMinute ], ok |-> TRUE ]
        ELSE [ bucket |-> r, ok |-> FALSE ]

\* ---- NonceCache
\* NonceCache.cleanup
cleanup(seen, nowS) ==
    [ n \in { k \in DOMAIN seen : ~(nowS - seen[k] > nonceTtlSeconds) } |-> seen[n] ]

\* Fault: the nonce is looked up and not stored.
checkOnly(seen, nonce, nowS) ==
    [ ok |-> nonce # null /\ nonce # <<>> /\ nonce \notin DOMAIN cleanup(seen, nowS),
      seen |-> IF nonce = null \/ nonce = <<>> THEN seen ELSE cleanup(seen, nowS) ]

\* NonceCache.checkAndStore at clock reading nowS: the result and the cache.
checkAndStore(seen, nonce, nowS) ==
    IF nonce = null \/ nonce = <<>> THEN [ ok |-> FALSE, seen |-> seen ]
    ELSE IF nonce \in DOMAIN cleanup(seen, nowS)
    THEN [ ok |-> FALSE, seen |-> cleanup(seen, nowS) ]
    ELSE [ ok |-> TRUE, seen |-> (nonce :> nowS) @@ cleanup(seen, nowS) ]

\* ---- Tokens. A token is its payload and the key pair that signed it: the
\* kid and the start of the process that generated the pair.
SigBox(kid, gen) == <<kid, gen>>

\* A null token, and a token no key pair of the service signed.
NoToken ==
    [ sig |-> <<"", 0>>, v |-> 0, aud |-> "", exp |-> 0, nonce |-> null,
      act_hash |-> null, scopes |-> <<>> ]

\* mintConsent at clock reading nowS
mintConsent(box, aud, ttlSec, nonce, actHash, nowS) ==
    [ sig |-> box, v |-> 1, aud |-> aud, exp |-> nowS + ttlSec, nonce |-> nonce,
      act_hash |-> actHash, scopes |-> <<>> ]

\* The token devCapMint signs at clock reading nowS.
mintCap(box, aud, ttlSec, scopes, nowS) ==
    [ sig |-> box, v |-> 1, aud |-> aud, exp |-> nowS + ttlSec, nonce |-> null,
      act_hash |-> null, scopes |-> scopes ]

\* verifySignedToken at clock reading nowS: the exception's message; <<>>
\* when the payload is returned.
verifySignedToken(box, token, nowS) ==
    IF token.sig # box THEN <<"sig invalid">>
    ELSE IF nowS > token.exp THEN <<"token expired">>
    ELSE <<>>

\* ---- CIF, CDI, Tools
\* The text of a request body that the block patterns are looked for in.
BodyText(body) ==
    (IF body.prompt[1] = "string" THEN body.prompt[2] ELSE <<>>)
    \o (IF body.tool[1] = "string" THEN body.tool[2] ELSE <<>>)

\* CIF.readChecked: the exception's message; <<>> when the body is returned.
readChecked(body) ==
    IF body.contentType \notin allowedContentTypes
    THEN <<"CIF:", " disallowed Content-Type">>
    ELSE IF body.bytes > maxBodyBytes THEN <<"CIF:", " body too large">>
    ELSE IF \E p \in blockPatterns : Contains(toLowerCase(BodyText(body)), p)
    THEN <<"CIF:", " blocked pattern detected">>
    ELSE <<>>

\* Fault: every tool is allowed.
checkToolAllowedAny(tool) ==
    IF tool = null \/ tool = <<>> THEN <<"CDI: missing tool">> ELSE <<>>

\* CDI.checkToolAllowed: the denial; <<>> is null.
checkToolAllowed(tool) ==
    IF tool = null \/ tool = <<>> THEN <<"CDI: missing tool">>
    ELSE IF toLowerCase(tool) \notin allowTools THEN <<"CDI: tool not allowed by policy">>
    ELSE IF toLowerCase(tool)[1] = "net/" THEN <<"CDI: network tools disabled">>
    ELSE <<>>

\* Tools.run: the exception's message; <<>> when a result is returned.
run(tool) ==
    IF tool \in { <<"echo">>, <<"time">> } THEN <<>>
    ELSE IF tool = <<"net/", "http_get">> THEN <<"net/http_get disabled">>
    ELSE <<"unknown tool">>

\* (m.get(key) instanceof String) ? (String) m.get(key) : otherwise
AsString(o, otherwise) == IF o[1] = "string" THEN o[2] ELSE otherwise

\* The action object App.ask hashes.
AskAction(body) ==
    ("op" :> JString(<<"ask">>)) @@ ("prompt" :> JString(AsString(body.prompt, <<>>)))

\* The action object App.toolRun hashes: every value of args goes through
\* String.valueOf.
ToolAction(body) ==
    ("op" :> JString(<<"tool/run">>)) @@ ("tool" :> JString(AsString(body.tool, null)))
    @@ ("args" :> <<"object", [ i \in DOMAIN body.args |->
                                  <<body.args[i][1], JString(body.args[i][2][2])>> ]>>)

\* The act_hash of the request on its route.
ActHash(route, body) ==
    computeActHash(canonicalJsonSorted(IF route = "ask" THEN AskAction(body)
                                       ELSE ToolAction(body)))

\* App.verifyConsent up to the audience check, at clock reading nowS: the
\* exception's message, or <<>>.
verifyConsentPayload(box, consentToken, nowS) ==
    IF consentToken = NoToken THEN <<"CDI: missing consent token">>
    ELSE IF verifySignedToken(box, consentToken, nowS) # <<>>
    THEN verifySignedToken(box, consentToken, nowS)
    ELSE IF consentToken.v # 1 THEN <<"consent bad version">>
    ELSE IF consentToken.aud # consentAudience THEN <<"consent bad aud">>
    ELSE <<>>

\* Fault: the act_hash of the token is not compared.
verifyConsentAnyAction(seen, consentToken, expectedActHash, nowS) ==
    [ seen |-> checkAndStore(seen, consentToken.nonce, nowS).seen,
      err |-> IF ~checkAndStore(seen, consentToken.nonce, nowS).ok
              THEN <<"consent replay or missing nonce">> ELSE <<>> ]

\* App.verifyConsent from the nonce check on, at clock reading nowS: the
\* nonce cache afterwards and the exception's message, or <<>>.
verifyConsent(seen, consentToken, expectedActHash, nowS) ==
    [ seen |-> checkAndStore(seen, consentToken.nonce, nowS).seen,
      err |-> IF ~checkAndStore(seen, consentToken.nonce, nowS).ok
              THEN <<"consent replay or missing nonce">>
              ELSE IF consentToken.act_hash = null
                      \/ consentToken.act_hash # expectedActHash
              THEN <<"consent act_hash mismatch">>
              ELSE <<>> ]

\* Fault: the scopes of the capability token are not looked at.
verifyCapUnscoped(box, capToken, tool, nowS) ==
    IF capToken = NoToken THEN <<"missing cap token">>
    ELSE verifySignedToken(box, capToken, nowS)

\* App.verifyCap at clock reading nowS: the exception's message, or <<>>.
verifyCap(box, capToken, tool, nowS) ==
    IF capToken = NoToken THEN <<"missing cap token">>
    ELSE IF verifySignedToken(box, capToken, nowS) # <<>>
    THEN verifySignedToken(box, capToken, nowS)
    ELSE IF capToken.v # 1 THEN <<"cap bad version">>
    ELSE IF capToken.aud # capAudience THEN <<"cap bad aud">>
    ELSE IF ~\E i \in DOMAIN capToken.scopes : capToken.scopes[i] = <<"tool:">> \o tool
    THEN <<"missing scope ", "tool:">> \o tool
    ELSE <<>>

\* ---- App
\* The threads of the server's executor.
Workers == { "w1", "w2" }

\* A request body: the Content-Type header, the length, and the values of
\* the keys prompt, tool and args (args: its entries in order).
Body(contentType, bytes, prompt, tool, args) ==
    [ contentType |-> contentType, bytes |-> bytes, prompt |-> prompt, tool |-> tool,
      args |-> args ]

\* A key that is absent from the body.
Absent == <<"null", <<>>>>

\* A thread that handles no request.
IdleReq ==
    [ pc |-> "idle", route |-> "", body |-> Body("", 0, Absent, Absent, <<>>),
      consent |-> NoToken, cap |-> NoToken, kind |-> "", msg |-> <<>>, ts |-> 0 ]

\* The response json() sends, with the route of the request.
Response(route, status, decision, reason, ref) ==
    [ route |-> route, status |-> status, decision |-> decision, reason |-> reason,
      audit_ref |-> ref ]

\* The gateway before the process starts. disk, writable and ms are the
\* machine's: audit.log, whether a write to it succeeds, and the clock in
\* milliseconds. head, seen, map and gen are the App's: audit.head,
\* nonces.seen, rl.map and the start that generated the keys. req is what
\* the threads are doing, resp the last response. minted, effects and served
\* keep what has happened: the tokens signed, the requests that were allowed
\* (model stub or tool executed, ALLOW returned) and the results of allow.
NoApp ==
    [ disk |-> NoFile, writable |-> TRUE, ms |-> 0, head |-> GENESIS, seen |-> <<>>,
      map |-> <<>>, rpm |-> rpmPerIp, gen |-> 0, req |-> [ w \in Workers |-> IdleReq ],
      resp |-> Response("", 0, "", <<>>, GENESIS),
      minted |-> <<>>, effects |-> <<>>, served |-> <<>> ]

\* new App() on the machine of a, with a rate limit of rpm: new keys, an
\* empty nonce cache, no buckets, and the Audit made of the file.
NewApp(a, rpm) ==
    [ a EXCEPT !.head = Audit(a.disk, a.ms \div 1000, a.writable).head,
               !.disk = Audit(a.disk, a.ms \div 1000, a.writable).file,
               !.seen = <<>>, !.map = <<>>, !.rpm = rpm, !.gen = @ + 1,
               !.req = [ w \in Workers |-> IdleReq ] ]

\* ----------------------------------------------------------- ledger callers
\* The goroutines that call the ledger's Append* methods.
Goroutines == {"g1", "g2"}

\* No call of Append* is in progress; Verify has not been called.
NoAppend == [ eventType |-> "", eventData |-> <<>> ]
NoVerify == [ called |-> FALSE, valid |-> FALSE, err |-> "", tampered |-> <<>> ]

\* What the callers of a ledger hold: the Append* calls that have built their
\* event data and wait for the ledger's lock, the slice GetReceipts returned
\* last, the receipts whose scope slice the caller passed to AppendTokenMint,
\* the result of the last Verify, and the change made behind the ledger's back.
NoClient ==
    [ pending |-> [ g \in Goroutines |-> NoAppend ], got |-> <<>>, passed |-> {},
      verify |-> NoVerify, tampered |-> <<>> ]

\* ------------------------------------------------------------------- state
VARIABLES
    now,                     \* the clock, in seconds
    tokens,                  \* the Token objects ever minted, by address (1..)
    ActiveCapabilityTokens,  \* SystemState: digest -> address of the token
    IntegrityState,          \* SystemState.IntegrityState
    PostureLevel,            \* SystemState.PostureLevel
    GovernanceRules,         \* SystemState.GovernanceCapsule.Rules
    ActiveConsents,          \* SystemState.AuthorityCapsule.ActiveConsents (true keys)
    receipts,                \* SystemState.AuditLedger.receipts
    adapters,                \* SystemState.AdapterRegistry.adapters (names)
    invocations,             \* MockAdapter.invocations
    proc,                    \* each goroutine's call in progress
    last,                    \* the call that returned last, with its response
    corridor,                \* the minimal kernel: its ledger, tokens and adapter
    client,                  \* what the callers of the audit ledger hold
    memory,                  \* memory.Manager: m.partitions
    app,                     \* the Java gateway: its App, audit.log and clock
    history                  \* counters and provenance of tokens (not program state)

extVars == << client, memory, app >>

vars == << client, memory, app, now, tokens, ActiveCapabilityTokens, IntegrityState, PostureLevel,
           GovernanceRules, ActiveConsents, receipts, adapters, invocations,
           proc, last, corridor, history >>

sysVars == << IntegrityState, PostureLevel, GovernanceRules, ActiveConsents >>

PrincipalID == "principal-1"
NamespaceID == "namespace-1"

NoDecision == Result("", "", <<>>, 0)
NoResponse == [ Content |-> <<>>, Success |-> FALSE, Error |-> <<>>,
                AuditTrail |-> <<>>, returned |-> FALSE ]

\* A goroutine that is not inside a call.
IdleProc ==
    [ pc |-> "idle", kind |-> "", call |-> 0, labeled |-> NoLabeled,
      ctx |-> NoCtx, decision |-> NoDecision, tok |-> 0, adapterName |-> "",
      posture |-> 0, seenLen |-> 0, err |-> "", trail |-> <<>>, resp |-> NoResponse,
      at |-> 0, seenRevoked |-> FALSE, args |-> <<>> ]

\* The requests and arguments the calls are made with.
Request(rawInput, meta) == [ RawInput |-> rawInput, Metadata |-> meta ]
Requests ==
    { Request(<<>>, NoMeta), Request(<<"test">>, NoMeta), Request(<<"test">>, "medium"),
      Request(<<"test">>, "high"), Request(<<"SYS", "tem:">>, NoMeta) }
TestScopes == { <<MockAdapterName>>, <<"scope1">> }
PostureArgs == 0..5

\* types.OIResponse of the minimal kernel, with the call and the system state it
\* was computed for.
OIResponse(denied, reasonCode, body, call, st) ==
    [ Denied |-> denied, ReasonCode |-> reasonCode, Body |-> body, call |-> call,
      system_state |-> st ]

\* types.SystemState, passed by value to every call of the minimal kernel
CorridorState(governanceOK, stopRequested) ==
    [ PostureLevel |-> "LOW", GovernanceCapsuleOK |-> governanceOK,
      StopRequested |-> stopRequested ]

NoCorridorResponse == OIResponse(FALSE, "", <<>>, 0, CorridorState(FALSE, FALSE))

\* NewKernel(NoopModelAdapter{}, audit.NewLedger()), with what came of its calls:
\* the ledger, the tokens minted, the inputs the adapter let through, the
\* response of the last call.
NewKernel ==
    [ receipts |-> <<>>, minted |-> <<>>, invoked |-> <<>>, resp |-> NoCorridorResponse ]

Init ==
    /\ now = 0
    /\ tokens = <<>>
    /\ ActiveCapabilityTokens = <<>>
    /\ IntegrityState = IntegrityOK
    /\ PostureLevel \in {0, P1}
    /\ GovernanceRules \in {NilRules, NoRules}
    /\ ActiveConsents \in {{}, {"high_risk_operations"}}
    /\ receipts = NewLedger(0)
    /\ adapters \in {{}, {MockAdapterName}}
    /\ invocations = <<>>
    /\ proc = [ p \in Procs |-> IdleProc ]
    /\ last = IdleProc
    /\ corridor = NewKernel
    /\ client = NoClient
    /\ memory = NewManager
    /\ app = NoApp
    /\ history = [ ops |-> 0, calls |-> 0, stops |-> 0, tok |-> <<>>, promoted |-> {} ]

\* ----------------------------------------------------------------- helpers
\* The call of goroutine p goes on as pr.
Continue(p, pr) ==
    /\ proc' = [ proc EXCEPT ![p] = pr ]
    /\ UNCHANGED last

\* The call of goroutine p, which stands at pr, returns this response.
Return(p, pr, success, error, content, trail) ==
    /\ proc' = [ proc EXCEPT ![p] = IdleProc ]
    /\ last' = [ pr EXCEPT !.pc = "idle", !.trail = trail,
                           !.resp = [ Content |-> content, Success |-> success,
                                      Error |-> error, AuditTrail |-> trail,
                                      returned |-> TRUE ] ]

\* token.RevokedAt != nil.  Revoke writes the field under the system-state lock and
\* the readers (kernelExecute, Token.Verify) take no lock: a read that races with
\* RevokeAllTokens returns the value before or after the write, which is the read
\* step taken before or after the RevokeAllTokens step.
IsRevoked(tok) == tok # 0 /\ tokens[tok].RevokedAt # NoTime

CdiDecisionStage(d) ==
    CASE d = ALLOW -> "cdi_decision: ALLOW"
      [] d = DENY -> "cdi_decision: DENY"
      [] d = DEGRADE -> "cdi_decision: DEGRADE"

NewCall == history.calls + 1

\* One more operation started, which is a call.
CountCall == [ history EXCEPT !.calls = NewCall, !.ops = @ + 1 ]

\* history.tok[t].regStops of a token that AddToken has not registered
NotRegistered == 0 - 1

\* Provenance of a token minted now: the call, who minted it, the STOPs that had
\* returned by then, and the STOPs that had returned when AddToken registered it.
Minted(call, by) ==
    [ call |-> call, by |-> by, stops |-> history.stops, regStops |-> NotRegistered ]

\* The mock adapter's result["message"]
MockMessage == <<"mock adapter mock_adapter invoked">>


\* ----------------------------------------------------------------- Execute
\* Execute, steps 1 and 2: ingress, the decision context read from the state, Decide.
Execute_Start(p, req) ==
    /\ proc[p].pc = "idle"
    /\ history.ops < MaxOps
    /\ history' = CountCall
    /\ LET pr == [ IdleProc EXCEPT !.kind = "execute", !.call = NewCall ]
           labeled == Ingress(req.RawInput, req.Metadata)
           ctx == [ Request |-> labeled, PostureLevel |-> PostureLevel,
                    GovernanceRules |-> GovernanceRules,
                    IntegrityState |-> IntegrityState,
                    ActiveConsents |-> ActiveConsents ]
       IN  IF IngressFails(req.RawInput)
           THEN Return(p, pr, FALSE, <<"cif_ingress_failed">>, <<>>,
                       <<"cif_ingress_start">>)
           ELSE Continue(p, [ pr EXCEPT !.pc = "decided", !.labeled = labeled,
                                        !.ctx = ctx,
                                        !.decision = Decide(ctx),
                                        !.trail = <<"cif_ingress_start",
                                                    "cif_ingress_complete",
                                                    "cdi_decision_start">> ])
    /\ UNCHANGED << extVars, corridor, now, tokens, ActiveCapabilityTokens, sysVars, receipts,
                    adapters, invocations >>

\* Fault: the DENY branch of step 3 is never taken.
DenyFallsThrough(decision) == FALSE

\* Execute, step 3: a DENY decision ends the call.
DenyIsTerminal(decision) == decision.Decision = DENY

\* mintToken at clock reading t0
mintToken(decision, t0) ==
    Mint("kernel", PrincipalID, "adapters", mintScope(decision), KernelLimits,
         KernelTTL, decision.RequiredPosture, MaxPostureBound, NamespaceID,
         PrincipalID, t0)

\* Execute: the decision is logged; DENY returns, otherwise the token is minted.
Execute_LogDecision(p) ==
    /\ proc[p].pc = "decided"
    /\ receipts' = AppendCDIDecision(receipts, proc[p].decision.Decision,
                                     proc[p].labeled.InputHash, "", now, proc[p].call)
    /\ LET t1 == Append(proc[p].trail, CdiDecisionStage(proc[p].decision.Decision))
       IN  IF DenyIsTerminal(proc[p].decision)
           THEN /\ Return(p, proc[p], FALSE,
                          <<"request denied", proc[p].decision.Reason>>, <<>>,
                          Append(t1, "deny_terminal"))
                /\ UNCHANGED << tokens, history >>
           ELSE /\ tokens' = Append(tokens, mintToken(proc[p].decision, now))
                /\ history' = [ history EXCEPT
                                  !.tok = Append(@, Minted(proc[p].call, "execute")) ]
                /\ Continue(p, [ proc[p] EXCEPT !.pc = "minted",
                                                !.tok = Len(tokens) + 1,
                                                !.trail = Append(t1, "token_mint_start") ])
    /\ UNCHANGED << extVars, corridor, now, ActiveCapabilityTokens, sysVars, adapters, invocations >>

\* s.ActiveCapabilityTokens[token.Digest] = token
AddTokenMap(map, heap, tok) ==
    [ d \in (DOMAIN map) \cup { heap[tok].Digest } |->
        IF d = heap[tok].Digest THEN tok ELSE map[d] ]

\* Execute, step 4: state.AddToken(token), under the state lock.
Execute_AddToken(p) ==
    /\ proc[p].pc = "minted"
    /\ ActiveCapabilityTokens' = AddTokenMap(ActiveCapabilityTokens, tokens, proc[p].tok)
    /\ receipts' = AppendTokenMint(receipts, tokens[proc[p].tok].Digest,
                                   tokens[proc[p].tok].Scope, now, proc[p].call)
    /\ history' = [ history EXCEPT !.tok[proc[p].tok].regStops = history.stops ]
    /\ Continue(p, [ proc[p] EXCEPT !.pc = "kernel_check",
                                    !.trail = @ \o <<"token_mint_complete",
                                                     "kernel_execute_start">> ])
    /\ UNCHANGED << extVars, corridor, now, tokens, sysVars, adapters, invocations >>

\* kernelExecute's check of STOP, and the posture it passes to the registry.
Execute_KernelCheck(p) ==
    /\ proc[p].pc = "kernel_check"
    /\ IF IsRevoked(proc[p].tok)
       THEN Return(p, [ proc[p] EXCEPT !.err = "token revoked - STOP dominance" ],
                   FALSE, <<"kernel_execute_failed", "token revoked - STOP dominance">>,
                   <<>>, proc[p].trail)
       ELSE Continue(p, [ proc[p] EXCEPT !.pc = "registry_invoke",
                                         !.adapterName = MockAdapterName,
                                         !.posture = PostureLevel ])
    /\ UNCHANGED << extVars, corridor, now, tokens, ActiveCapabilityTokens, sysVars, receipts,
                    adapters, invocations, history >>

\* ---------------------------------------------------------- Registry.Invoke
\* Registry.Get: "" when the adapter is registered
RegistryGet(registry, name) ==
    IF name \in registry THEN "" ELSE "adapter not found"

\* Fault: the result of VerifyToken is ignored.
InvokeUnverified(err) == TRUE

\* Registry.Invoke goes on to adapter.Invoke when VerifyToken returned this error.
InvokeAfterVerify(err) == err = ""

\* Registry.Invoke returned err to its caller: kernelExecute logs the attempt, a
\* direct caller has its answer.
AfterRegistryInvoke(p, pr, err) ==
    IF pr.kind = "execute"
    THEN Continue(p, [ pr EXCEPT !.pc = "attempt", !.err = err ])
    ELSE Return(p, [ pr EXCEPT !.err = err ], err = "", <<err>>, <<>>, <<>>)

\* Registry.Invoke: Get, then the adapter's VerifyToken.
Registry_Verify(p) ==
    /\ proc[p].pc = "registry_invoke"
    /\ LET getErr == RegistryGet(adapters, proc[p].adapterName)
           verifyErr == VerifyToken(tokens, proc[p].tok, IsRevoked(proc[p].tok),
                                    proc[p].posture, now)
           err == IF getErr # "" THEN getErr ELSE verifyErr
       IN  IF getErr = "" /\ InvokeAfterVerify(verifyErr)
           THEN Continue(p, [ proc[p] EXCEPT !.pc = "adapter_invoke", !.err = verifyErr,
                                             !.seenLen = Len(invocations) ])
           ELSE AfterRegistryInvoke(p, proc[p], err)
    /\ UNCHANGED << extVars, corridor, now, tokens, ActiveCapabilityTokens, sysVars, receipts,
                    adapters, invocations, history >>

\* Whether token tok would pass the adapter's VerifyToken now, at this posture.
ValidNow(tok, posture) == VerifyToken(tokens, tok, IsRevoked(tok), posture, now) = ""

\* The Invocation that MockAdapter.Invoke records, with how it came about:
\* the call, the path (via), the result of the VerifyToken that preceded it in
\* the call (verifyErr), whether the token was valid when it was recorded, and
\* the STOPs that had returned by then.
Invocation(tok, call, via, verifyErr, posture) ==
    [ TokenDigest |-> tokens[tok].Digest, tok |-> tok, call |-> call, via |-> via,
      verifyErr |-> verifyErr, valid |-> ValidNow(tok, posture),
      stops |-> history.stops ]

\* m.invocations = append(m.invocations, ...) takes no lock: the slice it appends
\* to is the one it read on entry (seen elements) or the current one.
RacyAppend(seq, seen, e) ==
    Append(SubSeq(seq, 1, IF seen < Len(seq) THEN seen ELSE Len(seq)), e)

\* Registry.Invoke: the adapter's Invoke, after its VerifyToken.
Registry_AdapterInvoke(p) ==
    /\ proc[p].pc = "adapter_invoke"
    /\ IF InvokeRejects(tokens, proc[p].tok)
       THEN /\ AfterRegistryInvoke(p, proc[p], "nil token - invoke rejected")
            /\ UNCHANGED invocations
       ELSE /\ \E seen \in { proc[p].seenLen, Len(invocations) } :
                 invocations' = RacyAppend(invocations, seen,
                                           Invocation(proc[p].tok, proc[p].call,
                                                      "registry", proc[p].err,
                                                      proc[p].posture))
            /\ AfterRegistryInvoke(p, proc[p], "")
    /\ UNCHANGED << extVars, corridor, now, tokens, ActiveCapabilityTokens, sysVars, receipts,
                    adapters, history >>

\* Fault: the two stages in the other order.
OutputStartSwapped == <<"cdi_output_decision_start", "kernel_execute_complete">>

\* The stages a call appends after kernelExecute returned without error.
OutputStart == <<"kernel_execute_complete", "cdi_output_decision_start">>
OutputDone == <<"cdi_output_decision_complete", "cif_egress_start">>
EgressDone == <<"cif_egress_complete">>

\* kernelExecute logs the attempt; Execute, steps 5 to 8.
Execute_LogAttempt(p) ==
    /\ proc[p].pc = "attempt"
    /\ receipts' = AppendAdapterAttempt(receipts, proc[p].adapterName,
                                        proc[p].err = "",
                                        tokens[proc[p].tok].Digest, now, proc[p].call)
    /\ LET sens == proc[p].labeled.SensitivityLevel
           t1 == proc[p].trail \o OutputStart
       IN  IF proc[p].err # ""
           THEN Return(p, proc[p], FALSE, <<"kernel_execute_failed", proc[p].err>>,
                       <<>>, proc[p].trail)
           ELSE IF DecideOutput(MockMessage, sens, PostureLevel).Decision = DENY
           THEN Return(p, proc[p], FALSE, <<"output blocked by CDI">>, <<>>, t1)
           ELSE Return(p, proc[p], TRUE, <<>>,
                       Egress(MockMessage, sens, SumBytes(MockMessage), PostureLevel,
                              KernelLeakBudget),
                       t1 \o OutputDone \o EgressDone)
    /\ UNCHANGED << extVars, corridor, now, tokens, ActiveCapabilityTokens, sysVars, adapters,
                    invocations, history >>

\* ------------------------------------------------------------ SystemState
Range(f) == { f[x] : x \in DOMAIN f }

\* One more operation started, which is not a call of the pipeline.
CountOp == [ history EXCEPT !.ops = @ + 1 ]

\* RevokeAllTokens' loop: token.Revoke() on every value of the map
RevokedByStop(map) == Range(map)

\* len(s.ActiveCapabilityTokens), which RevokeAllTokens logs
StopCount(map) == Cardinality(DOMAIN map)

\* SystemState.RevokeAllTokens, under the state lock.
RevokeAllTokens ==
    /\ history.ops < MaxOps
    /\ tokens' = [ t \in DOMAIN tokens |->
                     IF t \in RevokedByStop(ActiveCapabilityTokens)
                     THEN Revoke(tokens[t], now) ELSE tokens[t] ]
    /\ receipts' = AppendStopEvent(receipts, StopCount(ActiveCapabilityTokens), now, 0)
    /\ history' = [ history EXCEPT !.ops = @ + 1, !.stops = @ + 1 ]
    /\ UNCHANGED << extVars, corridor, now, ActiveCapabilityTokens, sysVars, adapters, invocations,
                    proc, last >>

\* SystemState.SetIntegrityState, under the state lock.
SetIntegrityState(state) ==
    /\ history.ops < MaxOps
    /\ IntegrityState' = state
    /\ receipts' = AppendIntegrityStateChange(receipts, state, now, 0)
    /\ history' = CountOp
    /\ UNCHANGED << extVars, corridor, now, tokens, ActiveCapabilityTokens, PostureLevel,
                    GovernanceRules, ActiveConsents, adapters, invocations, proc, last >>

\* The clock advances by d seconds.
Tick(d) ==
    /\ history.ops < MaxOps
    /\ now' = now + d
    /\ history' = CountOp
    /\ UNCHANGED << extVars, corridor, tokens, ActiveCapabilityTokens, sysVars, receipts, adapters,
                    invocations, proc, last >>

\* ------------------------------------------------- callers of the packages
\* What a caller passes: scopes, posture bounds and postures.
CallerMinPostures == {1, 2}
CallerPostures == {1, 5}

\* capabilities.Mint called from outside the kernel.
Direct_Mint(scope, minPosture) ==
    /\ history.ops < MaxOps
    /\ tokens' = Append(tokens, Mint("issuer", "subject", "audience", scope, TestLimits,
                                     KernelTTL, minPosture, MaxPostureBound, "ns1",
                                     "prin1", now))
    /\ history' = [ CountOp EXCEPT !.tok = Append(@, Minted(0, "caller")) ]
    /\ UNCHANGED << extVars, corridor, now, ActiveCapabilityTokens, sysVars, receipts, adapters,
                    invocations, proc, last >>

\* SystemState.AddToken called with a token that is not registered yet.
Direct_AddToken(tok) ==
    /\ history.tok[tok].regStops = NotRegistered
    /\ history.tok[tok].by = "caller"
    /\ ActiveCapabilityTokens' = AddTokenMap(ActiveCapabilityTokens, tokens, tok)
    /\ receipts' = AppendTokenMint(receipts, tokens[tok].Digest, tokens[tok].Scope, now, 0)
    /\ history' = [ history EXCEPT !.tok[tok].regStops = history.stops ]
    /\ UNCHANGED << extVars, corridor, now, tokens, sysVars, adapters, invocations, proc, last >>

\* Registry.Register(NewMockAdapter(name)); a second registration is an error.
Register ==
    /\ history.ops < MaxOps
    /\ MockAdapterName \notin adapters
    /\ adapters' = adapters \cup {MockAdapterName}
    /\ history' = CountOp
    /\ UNCHANGED << extVars, corridor, now, tokens, ActiveCapabilityTokens, sysVars, receipts,
                    invocations, proc, last >>

\* Registry.Invoke called from outside the kernel; tok = 0 is the nil token.
Registry_Invoke_Start(p, tok, posture) ==
    /\ proc[p].pc = "idle"
    /\ history.ops < MaxOps
    /\ history' = CountCall
    /\ Continue(p, [ IdleProc EXCEPT !.pc = "registry_invoke", !.kind = "registry",
                                     !.call = NewCall, !.tok = tok,
                                     !.adapterName = MockAdapterName,
                                     !.posture = posture ])
    /\ UNCHANGED << extVars, corridor, now, tokens, ActiveCapabilityTokens, sysVars, receipts,
                    adapters, invocations >>

\* MockAdapter.Invoke called on the adapter object, past the registry.
Direct_AdapterInvoke(tok) ==
    /\ history.ops < MaxOps
    /\ history' = CountCall
    /\ IF InvokeRejects(tokens, tok)
       THEN UNCHANGED invocations
       ELSE invocations' = Append(invocations,
                                  Invocation(tok, NewCall, "direct", "", PostureLevel))
    /\ UNCHANGED << extVars, corridor, now, tokens, ActiveCapabilityTokens, sysVars, receipts,
                    adapters, proc, last >>

\* ------------------------------------------------------ the minimal kernel
\* 30*time.Second
CorridorTTL == 30

OIRequest == [ UserIntent |-> "echo", UserPayload |-> <<"hi">>, PrincipalID |-> "p",
               NamespaceID |-> "n" ]

\* cif.Ingress of the minimal kernel
CorridorIngress(user_request) ==
    [ Request |-> user_request, TaintLabels |-> <<"UNTRUSTED">>,
      Sensitivity |-> "UNKNOWN" ]

\* cdi.DecideAction
DecideAction(system_state) ==
    IF ~system_state.GovernanceCapsuleOK
    THEN [ Value |-> DENY, Reason |-> "MISSING_GOVERNANCE_CAPSULE" ]
    ELSE IF system_state.StopRequested
    THEN [ Value |-> DENY, Reason |-> "STOP_DOMINANCE" ]
    ELSE [ Value |-> ALLOW, Reason |-> "ALLOW_LOW_RISK_DEFAULT" ]

\* cdi.DecideOutput of the minimal kernel
CorridorDecideOutput == [ Value |-> ALLOW, Reason |-> "ALLOW_OUTPUT_DEFAULT" ]

\* audit.Receipt of the minimal ledger
CorridorReceipt(eventType, tokenDigest, decision, postureLevel, t0) ==
    [ TimeUTC |-> t0, EventType |-> eventType, TokenDigest |-> tokenDigest,
      PostureLevel |-> postureLevel, Decision |-> decision, DetailsDigest |-> "" ]

\* capabilities.Mint of the minimal kernel at clock reading t0
CorridorMint(issuer, subject, audience, scope, ttl, postureMin, postureMax, namespaceID, principalID, t0) ==
    [ Issuer |-> issuer, Subject |-> subject, Audience |-> audience, Scope |-> scope,
      TTL |-> ttl, IssuedAt |-> t0, ExpiresAt |-> t0 + ttl, PostureMin |-> postureMin,
      PostureMax |-> postureMax, NamespaceID |-> namespaceID,
      PrincipalID |-> principalID,
      Digest |-> Sha256(<<issuer, subject, audience, namespaceID, principalID, t0 + ttl>>),
      RevokedAt |-> NoTime ]

\* NoopModelAdapter.Verify at clock reading t0; "" is a nil error
NoopVerify(capability_token, t0) ==
    IF capability_token.RevokedAt # NoTime THEN "TOKEN_REVOKED"
    ELSE IF t0 > capability_token.ExpiresAt THEN "TOKEN_EXPIRED"
    ELSE ""

\* Kernel.ExecuteCorridor: no other goroutine shares the kernel, so the call is one
\* step; d seconds pass between the mint and the adapter's check.
ExecuteCorridor(user_request, system_state, d) ==
    /\ history.ops < MaxOps
    /\ history' = CountCall
    /\ now' = IF DecideAction(system_state).Value = DENY THEN now ELSE now + d
    /\ LET labeled == CorridorIngress(user_request)
           posture == system_state.PostureLevel
           action_decision == DecideAction(system_state)
           r1 == Append(corridor.receipts,
                        CorridorReceipt("CDI_ACTION", "", action_decision.Value, posture, now))
           tok == CorridorMint("kernel-go", labeled.Request.PrincipalID, "noop-model",
                               <<"MODEL_INVOKE">>, CorridorTTL, "LOW", posture,
                               labeled.Request.NamespaceID, labeled.Request.PrincipalID,
                               now)
           r2 == Append(r1, CorridorReceipt("TOKEN_MINT", tok.Digest, "", posture, now))
           minted == Append(corridor.minted, [ token |-> tok, call |-> NewCall ])
           err == NoopVerify(tok, now + d)
           r3 == Append(r2, CorridorReceipt(IF err # "" THEN "ADAPTER_DENY" ELSE "ADAPTER_OK",
                                            tok.Digest, "", posture, now + d))
           r4 == Append(r3, CorridorReceipt("CDI_OUTPUT", "", CorridorDecideOutput.Value,
                                            posture, now + d))
       IN  IF action_decision.Value = DENY
           THEN corridor' = [ corridor EXCEPT
                    !.receipts = r1,
                    !.resp = OIResponse(TRUE, action_decision.Reason, <<>>, NewCall,
                                        system_state) ]
           ELSE IF err # ""
           THEN corridor' = [ corridor EXCEPT
                    !.receipts = r3, !.minted = minted,
                    !.resp = OIResponse(TRUE, "ADAPTER_DENIED", <<>>, NewCall,
                                        system_state) ]
           ELSE corridor' = [ receipts |-> r4, minted |-> minted,
                              invoked |-> Append(corridor.invoked,
                                                 [ input |-> labeled.Request.UserPayload,
                                                   call |-> NewCall ]),
                              resp |-> OIResponse(FALSE, "", labeled.Request.UserPayload,
                                                  NewCall, system_state) ]
    /\ UNCHANGED << extVars, tokens, ActiveCapabilityTokens, sysVars, receipts, adapters,
                    invocations, proc, last >>

\* ------------------------------------------------ the pipeline under load
\* The steps of the call that goroutine p is in.
CallStep(p) ==
    \/ Execute_LogDecision(p)
    \/ Execute_AddToken(p)
    \/ Execute_KernelCheck(p)
    \/ Registry_Verify(p)
    \/ Registry_AdapterInvoke(p)
    \/ Execute_LogAttempt(p)

\* One goroutine calls Execute, again and again, while STOP, integrity changes and
\* the clock go on beside it.
Next ==
    \/ \E req \in Requests : Execute_Start("p1", req)
    \/ CallStep("p1")
    \/ RevokeAllTokens
    \/ \E state \in IntegrityStates : SetIntegrityState(state)
    \/ \E d \in {1, KernelTTL + 1} : Tick(d)

Spec == Init /\ [][Next]_vars

\* ---------------------------------------------------- the packages' callers
\* A kernel at rest whose registry, ledger and adapter are called from outside.
InitCaller ==
    /\ Init
    /\ PostureLevel = P1
    /\ GovernanceRules = NoRules
    /\ ActiveConsents = {}

NextCaller ==
    \/ \E scope \in TestScopes, minPosture \in CallerMinPostures :
           Direct_Mint(scope, minPosture)
    \/ \E tok \in DOMAIN tokens : Direct_AddToken(tok)
    \/ Register
    \/ \E tok \in 0..Len(tokens), posture \in CallerPostures :
           Registry_Invoke_Start("p1", tok, posture)
    \/ Registry_Verify("p1")
    \/ Registry_AdapterInvoke("p1")
    \/ \E tok \in 0..Len(tokens) : Direct_AdapterInvoke(tok)
    \/ RevokeAllTokens
    \/ \E d \in {1, KernelTTL + 1} : Tick(d)

SpecCaller == InitCaller /\ [][NextCaller]_vars

\* ------------------------------------------------------ the two pipelines
\* Both kernels are called, one call after the other, while the integrity state
\* changes.
NextPipelines ==
    \/ \E req \in Requests : Execute_Start("p1", req)
    \/ CallStep("p1")
    \/ \E state \in IntegrityStates : SetIntegrityState(state)
    \/ \E governanceOK \in BOOLEAN, stopRequested \in BOOLEAN, d \in {0, CorridorTTL + 1} :
           ExecuteCorridor(OIRequest, CorridorState(governanceOK, stopRequested), d)

SpecPipelines == Init /\ [][NextPipelines]_vars

\* ------------------------------------------------------------- cdi.Decide
\* The requests Decide is called with: those above, a tainted one of high
\* sensitivity, one with a pressure pattern and one whose sensitivity is none
\* of low, medium and high.
DecideRequests ==
    Requests \cup { Request(<<"SYS", "tem:">>, "high"), Request(<<"urgent">>, NoMeta),
                    Request(<<"test">>, "critical") }

\* The system states Decide is called in.
InitDecide ==
    /\ now = 0
    /\ tokens = <<>>
    /\ ActiveCapabilityTokens = <<>>
    /\ IntegrityState \in IntegrityStates
    /\ PostureLevel \in 0..MaxPostureBound
    /\ GovernanceRules \in {NilRules, NoRules, SomeRules}
    /\ ActiveConsents \in {{}, {"high_risk_operations"}}
    /\ receipts = NewLedger(0)
    /\ adapters = {}
    /\ invocations = <<>>
    /\ proc = [ p \in Procs |-> IdleProc ]
    /\ last = IdleProc
    /\ corridor = NewKernel
    /\ client = NoClient
    /\ memory = NewManager
    /\ app = NoApp
    /\ history = [ ops |-> 0, calls |-> 0, stops |-> 0, tok |-> <<>>, promoted |-> {} ]

\* cdi.Decide called on the labeled request and the state's posture, rules,
\* integrity and consents.
Decide_Call(req) ==
    /\ history.ops < MaxOps
    /\ ~IngressFails(req.RawInput)
    /\ history' = CountCall
    /\ LET ctx == [ Request |-> Ingress(req.RawInput, req.Metadata),
                    PostureLevel |-> PostureLevel,
                    GovernanceRules |-> GovernanceRules,
                    IntegrityState |-> IntegrityState,
                    ActiveConsents |-> ActiveConsents ]
       IN  last' = [ IdleProc EXCEPT !.kind = "decide", !.call = NewCall,
                                     !.labeled = ctx.Request, !.ctx = ctx,
                                     !.decision = Decide(ctx),
                                     !.err = DecideError(ctx) ]
    /\ UNCHANGED << extVars, now, tokens, ActiveCapabilityTokens, sysVars, receipts, adapters,
                    invocations, proc, corridor >>

\* cdi.Decide called with the nil context.
Decide_Nil ==
    /\ history.ops < MaxOps
    /\ history' = CountCall
    /\ last' = [ IdleProc EXCEPT !.kind = "decide", !.call = NewCall,
                                 !.decision = Decide(NoCtx),
                                 !.err = DecideError(NoCtx) ]
    /\ UNCHANGED << extVars, now, tokens, ActiveCapabilityTokens, sysVars, receipts, adapters,
                    invocations, proc, corridor >>

NextDecide ==
    \/ \E req \in DecideRequests : Decide_Call(req)
    \/ Decide_Nil

SpecDecide == InitDecide /\ [][NextDecide]_vars

\* SystemState.PostureLevel and DecisionContext.PostureLevel are ints that any
\* caller sets: the kernel at a posture below P0, at P0, at P1, at P4 and above
\* P4, with governance present and the mock adapter registered.
AnyPostures == { P0 - 1, P0, P1, P4, P4 + 1 }

InitAnyPosture ==
    /\ now = 0
    /\ tokens = <<>>
    /\ ActiveCapabilityTokens = <<>>
    /\ IntegrityState \in {IntegrityOK, IntegrityDegraded}
    /\ PostureLevel \in AnyPostures
    /\ GovernanceRules = NoRules
    /\ ActiveConsents = {}
    /\ receipts = NewLedger(0)
    /\ adapters = {MockAdapterName}
    /\ invocations = <<>>
    /\ proc = [ p \in Procs |-> IdleProc ]
    /\ last = IdleProc
    /\ corridor = NewKernel
    /\ client = NoClient
    /\ memory = NewManager
    /\ app = NoApp
    /\ history = [ ops |-> 0, calls |-> 0, stops |-> 0, tok |-> <<>>, promoted |-> {} ]

\* Decide is called directly and through Execute.
NextAnyPosture ==
    \/ \E req \in Requests : Decide_Call(req)
    \/ \E req \in Requests : Execute_Start("p1", req)
    \/ CallStep("p1")

SpecAnyPosture == InitAnyPosture /\ [][NextAnyPosture]_vars

\* cif.Ingress called directly: raw inputs of up to three fragments, among
\* them a control character, the halves of an impersonation marker, a pressure
\* marker and a text over the size limit; with and without a sensitivity.
IngressFragments == { "SYS", "tem:", "\\x01", "test", "urgent", "BLOB" }
IngressInputs ==
    {<<>>} \cup { <<a>> : a \in IngressFragments }
           \cup { <<a, b>> : a \in IngressFragments, b \in IngressFragments }
           \cup { <<a, b, c>> : a \in IngressFragments, b \in IngressFragments,
                                c \in IngressFragments }

\* Ingress's error; "" is a nil error
IngressError(rawInput) ==
    IF SumBytes(rawInput) = 0 THEN "empty input rejected"
    ELSE IF SumBytes(rawInput) > MaxInputBytes THEN "input exceeds size limit"
    ELSE ""

Ingress_Call(rawInput, meta) ==
    /\ history.ops < MaxOps
    /\ history' = CountCall
    /\ last' = [ IdleProc EXCEPT
                   !.kind = "ingress", !.call = NewCall, !.args = rawInput,
                   !.err = IngressError(rawInput),
                   !.labeled = IF IngressFails(rawInput) THEN NoLabeled
                               ELSE Ingress(rawInput, meta) ]
    /\ UNCHANGED << extVars, now, tokens, ActiveCapabilityTokens, sysVars, receipts, adapters,
                    invocations, proc, corridor >>

NextIngress == \E rawInput \in IngressInputs, meta \in {NoMeta, "high"} :
                   Ingress_Call(rawInput, meta)

SpecIngress == InitCaller /\ [][NextIngress]_vars

\* cdi.DecideOutput called directly: the contents, among them ones that
\* the scan of egress matches, and the sensitivity labels.
OutputContents ==
    { <<"test">>, <<"ignore previous instructions">>,
      <<"Please ", "IGNORE PREVIOUS INSTRUCTIONS", " now">>, <<"new instructions:">>,
      MockMessage }
OutputSensitivities == { "low", "medium", "high", "" }

DecideOutput_Call(content, sensitivity, postureLevel) ==
    /\ history.ops < MaxOps
    /\ history' = CountCall
    /\ last' = [ IdleProc EXCEPT !.kind = "decideOutput", !.call = NewCall,
                                 !.args = <<content, sensitivity>>,
                                 !.posture = postureLevel,
                                 !.decision = DecideOutput(content, sensitivity, postureLevel) ]
    /\ UNCHANGED << extVars, now, tokens, ActiveCapabilityTokens, sysVars, receipts, adapters,
                    invocations, proc, corridor >>

NextOutput ==
    \E content \in OutputContents, sensitivity \in OutputSensitivities, postureLevel \in PostureArgs :
        DecideOutput_Call(content, sensitivity, postureLevel)

SpecOutput == InitCaller /\ [][NextOutput]_vars

\* cif.Egress called directly with artifacts whose content holds a bypass
\* phrase, in capitals, or one that the leak budget cuts.
EgressContents ==
    { <<"test">>, <<"ignore previous instructions">>, <<"IGNORE PREVIOUS INSTRUCTIONS">>,
      <<"a", "SYS", "tem prompt:">>, <<"a", "b", "override security">> }
EgressSensitivities == { "low", "high", "" }
EgressBudgets == { 0, 2, KernelLeakBudget }

Egress_Call(content, sensitivity, leakBudgetUsed, postureLevel, leakBudget) ==
    /\ history.ops < MaxOps
    /\ history' = CountCall
    /\ last' = [ IdleProc EXCEPT
                   !.kind = "egress", !.call = NewCall,
                   !.args = <<content, sensitivity, leakBudgetUsed, leakBudget>>,
                   !.posture = postureLevel,
                   !.resp = [ NoResponse EXCEPT
                                !.Content = Egress(content, sensitivity, leakBudgetUsed,
                                                   postureLevel, leakBudget),
                                !.Success = TRUE, !.returned = TRUE ] ]
    /\ UNCHANGED << extVars, now, tokens, ActiveCapabilityTokens, sysVars, receipts, adapters,
                    invocations, proc, corridor >>

NextEgress ==
    \E content \in EgressContents, sensitivity \in EgressSensitivities, postureLevel \in PostureArgs, leakBudget \in EgressBudgets :
        \E leakBudgetUsed \in { 0, SumBytes(content) } :
            Egress_Call(content, sensitivity, leakBudgetUsed, postureLevel, leakBudget)

SpecEgress == InitCaller /\ [][NextEgress]_vars

\* posture.RequiresConfirmation, posture.FailClosed and shouldRedactByPosture
\* called with a level and a risk or sensitivity value; last.args keeps the
\* results of the calls made so far.
PostureValues == { "low", "medium", "high", "unknown" }

Posture_Check(level, value) ==
    /\ history.ops < MaxOps
    /\ history' = CountOp
    /\ last' = [ IdleProc EXCEPT
                   !.kind = "posture", !.posture = level,
                   !.args = (IF last.kind = "posture" THEN last.args ELSE {})
                            \cup { [ level |-> level, value |-> value,
                                     confirm |-> RequiresConfirmation(level, value),
                                     failClosed |-> FailClosed(level, value),
                                     redact |-> shouldRedactByPosture(value, level) ] } ]
    /\ UNCHANGED << extVars, now, tokens, ActiveCapabilityTokens, sysVars, receipts, adapters,
                    invocations, proc, corridor >>

NextPosture == \E level \in PostureArgs, value \in PostureValues : Posture_Check(level, value)

SpecPosture == InitCaller /\ [][NextPosture]_vars

\* ------------------------------------------------------------------- locks
\* The goroutines that call the components, and the component locks:
\* SystemState.mu, Ledger.mu, Manager.mu and Registry.mu. held is the set of
\* locks a goroutine has taken and not released.
Threads == { "p1", "p2" }
StateLock == "SystemState.mu"
LedgerLock == "Ledger.mu"
MemoryLock == "Manager.mu"
RegistryLock == "Registry.mu"
IdleThread == IdleProc @@ [ held |-> {} ]
Holders(lock) == { t \in Threads : lock \in proc[t].held }

InitLocks ==
    /\ now = 0
    /\ tokens = <<>>
    /\ ActiveCapabilityTokens = <<>>
    /\ IntegrityState = IntegrityOK
    /\ PostureLevel = P1
    /\ GovernanceRules = NoRules
    /\ ActiveConsents = {}
    /\ receipts = NewLedger(0)
    /\ adapters = {}
    /\ invocations = <<>>
    /\ proc = [ t \in Threads |-> IdleThread ]
    /\ last = IdleProc
    /\ corridor = NewKernel
    /\ client = NoClient
    /\ memory = NewManager
    /\ app = NoApp
    /\ history = [ ops |-> 0, calls |-> 0, stops |-> 0, tok |-> <<>>, promoted |-> {} ]

\* SetIntegrityState: s.mu.Lock() and the assignment.
SetIntegrityState_Lock(t, state) ==
    /\ history.ops < MaxOps
    /\ proc[t].pc = "idle"
    /\ Holders(StateLock) = {}
    /\ IntegrityState' = state
    /\ proc' = [ proc EXCEPT ![t] = [ IdleThread EXCEPT !.pc = "state_locked",
                                          !.kind = "SetIntegrityState", !.args = <<state>>,
                                          !.held = { StateLock } ] ]
    /\ history' = CountOp
    /\ UNCHANGED << extVars, corridor, now, tokens, ActiveCapabilityTokens, PostureLevel,
                    GovernanceRules, ActiveConsents, receipts, adapters, invocations, last >>

\* RevokeAllTokens: s.mu.Lock() and the loop over the active tokens.
RevokeAllTokens_Lock(t) ==
    /\ history.ops < MaxOps
    /\ proc[t].pc = "idle"
    /\ Holders(StateLock) = {}
    /\ tokens' = [ k \in DOMAIN tokens |->
                     IF k \in RevokedByStop(ActiveCapabilityTokens)
                     THEN Revoke(tokens[k], now) ELSE tokens[k] ]
    /\ proc' = [ proc EXCEPT ![t] = [ IdleThread EXCEPT !.pc = "state_locked",
                                          !.kind = "RevokeAllTokens",
                                          !.held = { StateLock } ] ]
    /\ history' = [ history EXCEPT !.ops = @ + 1, !.stops = @ + 1 ]
    /\ UNCHANGED << extVars, corridor, now, ActiveCapabilityTokens, sysVars, receipts, adapters,
                    invocations, last >>

\* AddToken with a token that is not registered yet: s.mu.Lock() and the
\* assignment to the map.
AddToken_Lock(t, tok) ==
    /\ history.ops < MaxOps
    /\ proc[t].pc = "idle"
    /\ Holders(StateLock) = {}
    /\ history.tok[tok].regStops = NotRegistered
    /\ ActiveCapabilityTokens' = AddTokenMap(ActiveCapabilityTokens, tokens, tok)
    /\ proc' = [ proc EXCEPT ![t] = [ IdleThread EXCEPT !.pc = "state_locked",
                                          !.kind = "AddToken", !.tok = tok,
                                          !.held = { StateLock } ] ]
    /\ history' = [ CountOp EXCEPT !.tok[tok].regStops = history.stops ]
    /\ UNCHANGED << extVars, corridor, now, tokens, sysVars, receipts, adapters, invocations,
                    last >>

\* A goroutine calls an Append* method of the ledger from outside the state:
\* Execute's AppendCDIDecision.
AppendCDIDecision_Call(t, decision) ==
    /\ history.ops < MaxOps
    /\ proc[t].pc = "idle"
    /\ proc' = [ proc EXCEPT ![t] = [ IdleThread EXCEPT !.pc = "append_call",
                                          !.kind = "AppendCDIDecision",
                                          !.args = <<decision>> ] ]
    /\ history' = CountOp
    /\ UNCHANGED << extVars, corridor, now, tokens, ActiveCapabilityTokens, sysVars, receipts,
                    adapters, invocations, last >>

\* Ledger.append: l.mu.Lock(), by a goroutine that is in an Append* method,
\* with the state lock (SetIntegrityState, RevokeAllTokens, AddToken) or
\* without it.
Append_Lock(t) ==
    /\ proc[t].pc \in { "state_locked", "append_call" }
    /\ Holders(LedgerLock) = {}
    /\ proc' = [ proc EXCEPT ![t].pc = "appending", ![t].held = @ \cup { LedgerLock } ]
    /\ UNCHANGED << extVars, corridor, now, tokens, ActiveCapabilityTokens, sysVars, receipts,
                    adapters, invocations, last, history >>

\* Ledger.append: the receipt is appended and the deferred l.mu.Unlock() runs.
Append_Unlock(t) ==
    /\ proc[t].pc = "appending"
    /\ receipts' =
           CASE proc[t].kind = "SetIntegrityState" ->
                    AppendIntegrityStateChange(receipts, proc[t].args[1], now, 0)
             [] proc[t].kind = "RevokeAllTokens" ->
                    AppendStopEvent(receipts, StopCount(ActiveCapabilityTokens), now, 0)
             [] proc[t].kind = "AddToken" ->
                    AppendTokenMint(receipts, tokens[proc[t].tok].Digest,
                                    tokens[proc[t].tok].Scope, now, 0)
             [] OTHER ->
                    AppendCDIDecision(receipts, proc[t].args[1], Sha256(<<"test">>), "", now, 0)
    /\ proc' = [ proc EXCEPT ![t].pc = "appended", ![t].held = @ \ { LedgerLock } ]
    /\ UNCHANGED << extVars, corridor, now, tokens, ActiveCapabilityTokens, sysVars, adapters,
                    invocations, last, history >>

\* The method returns: the deferred s.mu.Unlock() of SetIntegrityState,
\* RevokeAllTokens and AddToken runs.
Method_Return(t) ==
    /\ proc[t].pc \in { "appended", "memory_locked", "registry_locked" }
    /\ proc' = [ proc EXCEPT ![t] = IdleThread ]
    /\ last' = [ IdleProc EXCEPT !.kind = proc[t].kind, !.args = proc[t].args,
                                 !.tok = proc[t].tok, !.err = proc[t].err ]
    /\ UNCHANGED << extVars, corridor, now, tokens, ActiveCapabilityTokens, sysVars, receipts,
                    adapters, invocations, history >>

\* Manager.Write: m.mu.Lock() and the body.
Write_Lock(t, partition, id, content) ==
    /\ history.ops < MaxOps
    /\ proc[t].pc = "idle"
    /\ Holders(MemoryLock) = {}
    /\ memory' = Write(memory, partition, id, content, NilMetadata)
    /\ proc' = [ proc EXCEPT ![t] = [ IdleThread EXCEPT !.pc = "memory_locked", !.kind = "write",
                                          !.args = <<partition, id, content>>,
                                          !.err = WriteError(memory, partition, id),
                                          !.held = { MemoryLock } ] ]
    /\ history' = CountOp
    /\ UNCHANGED << client, app, corridor, now, tokens, ActiveCapabilityTokens, sysVars,
                    receipts, adapters, invocations, last >>

\* Registry.Register: r.mu.Lock() and the body.
Register_Lock(t) ==
    /\ history.ops < MaxOps
    /\ proc[t].pc = "idle"
    /\ Holders(RegistryLock) = {}
    /\ adapters' = adapters \cup { MockAdapterName }
    /\ proc' = [ proc EXCEPT ![t] = [ IdleThread EXCEPT !.pc = "registry_locked",
                                          !.kind = "registry",
                                          !.err = IF MockAdapterName \in adapters
                                                  THEN "adapter already registered" ELSE "",
                                          !.held = { RegistryLock } ] ]
    /\ history' = CountOp
    /\ UNCHANGED << extVars, corridor, now, tokens, ActiveCapabilityTokens, sysVars, receipts,
                    invocations, last >>

NextLocks ==
    \/ \E t \in Threads, state \in { IntegrityDegraded, IntegrityVoid } :
           SetIntegrityState_Lock(t, state)
    \/ \E t \in Threads : RevokeAllTokens_Lock(t)
    \/ \E t \in Threads, tok \in DOMAIN tokens : AddToken_Lock(t, tok)
    \/ \E t \in Threads : AppendCDIDecision_Call(t, ALLOW)
    \/ \E t \in Threads : Append_Lock(t)
    \/ \E t \in Threads : Append_Unlock(t)
    \/ \E t \in Threads : Method_Return(t)
    \/ \E t \in Threads : Write_Lock(t, PartitionDurable, "id1", <<"test">>)
    \/ \E t \in Threads : Register_Lock(t)
    \/ Direct_Mint(<<MockAdapterName>>, 1)

SpecLocks == InitLocks /\ [][NextLocks]_vars

\* ----------------------------------------------------- capabilities.Token
\* What the callers of the capabilities package pass: TTLs in seconds, posture
\* bounds and postures.
TokenTTLs == {0, 1}
TokenMaxPostures == {1, MaxPostureBound}
TokenPostures == {1, MaxPostureBound, 5}

InitToken == InitCaller /\ adapters = {}

\* capabilities.Mint with a TTL and posture bounds.
Token_Mint(ttl, minPosture, maxPosture) ==
    /\ history.ops < MaxOps
    /\ tokens' = Append(tokens, Mint("test_issuer", "test_subject", "test_audience",
                                     <<MockAdapterName>>, TestLimits, ttl, minPosture,
                                     maxPosture, "test_namespace", "test_principal", now))
    /\ history' = [ CountOp EXCEPT !.tok = Append(@, Minted(0, "caller")) ]
    /\ UNCHANGED << extVars, corridor, now, ActiveCapabilityTokens, sysVars, receipts, adapters,
                    invocations, proc, last >>

\* token.Revoke()
Token_Revoke(tok) ==
    /\ history.ops < MaxOps
    /\ tokens' = [ tokens EXCEPT ![tok] = Revoke(@, now) ]
    /\ history' = CountOp
    /\ UNCHANGED << extVars, corridor, now, ActiveCapabilityTokens, sysVars, receipts, adapters,
                    invocations, proc, last >>

\* token.Verify(currentPosture): the call keeps the clock reading, what it read
\* of RevokedAt and the error it returned ("" for true, nil).
Token_Verify(tok, currentPosture) ==
    /\ last' = [ IdleProc EXCEPT
                   !.kind = "verify", !.tok = tok, !.posture = currentPosture,
                   !.at = now, !.seenRevoked = tokens[tok].RevokedAt # NoTime,
                   !.err = Verify(tokens[tok], tokens[tok].RevokedAt # NoTime,
                                  currentPosture, now) ]
    /\ UNCHANGED << extVars, corridor, now, tokens, ActiveCapabilityTokens, sysVars, receipts,
                    adapters, invocations, proc, history >>

NextToken ==
    \/ \E ttl \in TokenTTLs, minPosture \in CallerMinPostures, maxPosture \in TokenMaxPostures :
           Token_Mint(ttl, minPosture, maxPosture)
    \/ \E tok \in DOMAIN tokens : Token_Revoke(tok)
    \/ \E tok \in DOMAIN tokens, posture \in TokenPostures : Token_Verify(tok, posture)
    \/ Tick(1)

SpecToken == InitToken /\ [][NextToken]_vars

\* capabilities.Mint by two callers of the package. time.Now() has nanosecond
\* resolution: the token keeps the second of the reading (what Unix() returns
\* of IssuedAt), history.tok keeps the rest of it.
MintNanos == { 0, 500000000 }
MintSubjects == { "subject-a", "subject-b" }

Mint_At(subject, ttl, nsec) ==
    /\ history.ops < MaxOps
    /\ tokens' = Append(tokens, Mint("test_issuer", subject, "test_audience",
                                     <<MockAdapterName>>, TestLimits, ttl, 1,
                                     MaxPostureBound, "test_namespace", "test_principal",
                                     now))
    /\ history' = [ CountOp EXCEPT !.tok = Append(@, Minted(0, "caller") @@ [ nsec |-> nsec ]) ]
    /\ UNCHANGED << extVars, corridor, now, ActiveCapabilityTokens, sysVars, receipts, adapters,
                    invocations, proc, last >>

NextMint ==
    \/ \E subject \in MintSubjects, ttl \in TokenTTLs, nsec \in MintNanos :
           Mint_At(subject, ttl, nsec)
    \/ Tick(1)

SpecMint == InitToken /\ [][NextMint]_vars

\* ------------------------------------------------------------ audit.Ledger
\* The event of an Append* call: the type and the event data it hands to append.
EventOf(appended) ==
    [ eventType |-> appended[1].EventType, eventData |-> appended[1].EventData ]

\* The Append* calls the callers make.
AppendCalls ==
    { EventOf(AppendCDIDecision(<<>>, ALLOW, "input_hash_1", "output_hash_1", 0, 0)),
      EventOf(AppendTokenMint(<<>>, "token_digest_1", <<"scope1", "scope2">>, 0, 0)),
      EventOf(AppendAdapterAttempt(<<>>, "test_adapter", TRUE, "token_digest_1", 0, 0)),
      EventOf(AppendMemoryWrite(<<>>, PartitionQuarantine, "scope1", "content_hash_1", 0, 0)),
      EventOf(AppendIntegrityStateChange(<<>>, IntegrityDegraded, 0, 0)),
      EventOf(AppendStopEvent(<<>>, 5, 0, 0)),
      EventOf(AppendPostureChange(<<>>, 1, 2, "reason", 0, 0)) }

\* A new ledger and its callers.
InitLedger == InitCaller /\ adapters = {}

\* An Append* method has built its event data and calls append, which waits
\* for the ledger's lock.
Append_Start(g, ev) ==
    /\ history.ops < MaxOps
    /\ client.pending[g] = NoAppend
    /\ client' = [ client EXCEPT !.pending[g] = ev ]
    /\ history' = CountOp
    /\ UNCHANGED << memory, app, corridor, now, tokens, ActiveCapabilityTokens, sysVars,
                    receipts, adapters, invocations, proc, last >>

\* Ledger.append, under the ledger's lock.
Append_Locked(g) ==
    /\ client.pending[g] # NoAppend
    /\ receipts' = LedgerAppend(receipts, client.pending[g].eventType,
                                client.pending[g].eventData, now, 0)
    /\ client' = [ client EXCEPT !.pending[g] = NoAppend ]
    /\ UNCHANGED << memory, app, corridor, now, tokens, ActiveCapabilityTokens, sysVars,
                    adapters, invocations, proc, last, history >>

\* Ledger.Verify, under the ledger's lock; the caller keeps the result.
Ledger_Verify ==
    /\ client' = [ client EXCEPT !.verify =
                       [ called |-> TRUE, valid |-> LedgerVerify(receipts) = "",
                         err |-> LedgerVerify(receipts), tampered |-> client.tampered ] ]
    /\ UNCHANGED << memory, app, corridor, now, tokens, ActiveCapabilityTokens, sysVars,
                    receipts, adapters, invocations, proc, last, history >>

NextLedger ==
    \/ \E g \in Goroutines, ev \in AppendCalls : Append_Start(g, ev)
    \/ \E g \in Goroutines : Append_Locked(g)
    \/ Ledger_Verify
    \/ Tick(1)

SpecLedger == InitLedger /\ [][NextLedger]_vars

\* A whole Append* call; the caller of AppendTokenMint keeps the slice it
\* passed, which the new receipt's event data holds.
Ledger_Append(ev) ==
    /\ history.ops < MaxOps
    /\ receipts' = LedgerAppend(receipts, ev.eventType, ev.eventData, now, 0)
    /\ client' = [ client EXCEPT !.passed =
                       IF ev.eventType = "token_mint" THEN @ \cup { Len(receipts) + 1 }
                       ELSE @ ]
    /\ history' = CountOp
    /\ UNCHANGED << memory, app, corridor, now, tokens, ActiveCapabilityTokens, sysVars,
                    adapters, invocations, proc, last >>

\* The fields of a Receipt.
ReceiptFields ==
    { "Sequence", "Timestamp", "EventType", "EventData", "PrevHash", "CurrentHash" }

\* Other values for the value of a key of the event data: another decision,
\* the same scope words in one element, a shorter scope, the other boolean,
\* the next number, another string.
OtherValues(data, k) ==
    IF IsSlice(data, k) THEN { <<"scope1 scope2">>, <<"scope1">> }
    ELSE IF k = "decision" THEN { DENY }
    ELSE IF k = "accepted" THEN { ~data[k] }
    ELSE IF k \in { "tokens_revoked", "from_level", "to_level" } THEN { data[k] + 1 }
    ELSE { "forged" }

\* Other values for a field of a receipt.
TamperValues(r, field) ==
    CASE field = "Sequence" -> { r.Sequence + 1 }
      [] field = "Timestamp" -> { r.Timestamp + 1 }
      [] field = "EventType" -> { "forged" }
      [] field = "EventData" ->
             UNION { { [ r.EventData EXCEPT ![k] = v ] : v \in OtherValues(r.EventData, k) } :
                         k \in DOMAIN r.EventData }
      [] field = "PrevHash" ->
             IF r.PrevHash = GenesisPrevHash THEN { "ffffffffffffffff" }
             ELSE { Sha256(<<"forged">>) }
      [] field = "CurrentHash" -> { Sha256(<<"forged">>) }

\* One field of one receipt of a ledger with two receipts or more is changed
\* behind the ledger's back, as the tamper test does with ledger.receipts.
Tamper(i, field, v) ==
    /\ history.ops < MaxOps
    /\ Len(receipts) >= 2
    /\ client.tampered = <<>>
    /\ v # receipts[i][field]
    /\ receipts' = [ receipts EXCEPT ![i][field] = v ]
    /\ client' = [ client EXCEPT !.tampered = <<i, field>> ]
    /\ history' = CountOp
    /\ UNCHANGED << memory, app, corridor, now, tokens, ActiveCapabilityTokens, sysVars,
                    adapters, invocations, proc, last >>

NextTamper ==
    \/ \E ev \in AppendCalls : Ledger_Append(ev)
    \/ \E i \in DOMAIN receipts, field \in ReceiptFields :
           \E v \in TamperValues(receipts[i], field) : Tamper(i, field, v)
    \/ Ledger_Verify

SpecTamper == InitLedger /\ [][NextTamper]_vars

\* Ledger.GetReceipts, under the ledger's lock; the caller keeps the slice.
Ledger_GetReceipts ==
    /\ client' = [ client EXCEPT !.got = GetReceipts(receipts) ]
    /\ UNCHANGED << memory, app, corridor, now, tokens, ActiveCapabilityTokens, sysVars,
                    receipts, adapters, invocations, proc, last, history >>

\* The zero Receipt; its EventData is the nil map.
ZeroReceipt ==
    [ Sequence |-> 0, Timestamp |-> 0, EventType |-> "", EventData |-> 0,
      PrevHash |-> "", CurrentHash |-> "", call |-> 0 ]

\* The caller cuts the last receipt off the slice it got.
Caller_Truncate ==
    /\ history.ops < MaxOps
    /\ client.got # <<>>
    /\ client' = [ client EXCEPT !.got = SubSeq(@, 1, Len(@) - 1) ]
    /\ history' = CountOp
    /\ UNCHANGED << memory, app, corridor, now, tokens, ActiveCapabilityTokens, sysVars,
                    receipts, adapters, invocations, proc, last >>

\* The caller overwrites a receipt of the slice it got.
Caller_Overwrite(j) ==
    /\ history.ops < MaxOps
    /\ client.got[j] # ZeroReceipt
    /\ client' = [ client EXCEPT !.got[j] = ZeroReceipt ]
    /\ history' = CountOp
    /\ UNCHANGED << memory, app, corridor, now, tokens, ActiveCapabilityTokens, sysVars,
                    receipts, adapters, invocations, proc, last >>

\* The receipts of the slice the caller got whose EventData is a map.
HeldMaps == { j \in DOMAIN client.got : client.got[j].EventData # 0 }

\* The caller assigns to a key of the EventData of a receipt it got: the map
\* is the ledger's.
Caller_SetEventData(j, k, v) ==
    /\ history.ops < MaxOps
    /\ j \in HeldMaps
    /\ receipts' = [ receipts EXCEPT ![client.got[j].EventData].EventData[k] = v ]
    /\ history' = CountOp
    /\ UNCHANGED << extVars, corridor, now, tokens, ActiveCapabilityTokens, sysVars,
                    adapters, invocations, proc, last >>

\* The caller assigns to an element of the scope inside the EventData of a
\* receipt it got: the slice is the one in the ledger's map.
Caller_SetScope(j) ==
    /\ history.ops < MaxOps
    /\ j \in HeldMaps
    /\ IsSlice(receipts[client.got[j].EventData].EventData, "scope")
    /\ receipts' = [ receipts EXCEPT ![client.got[j].EventData].EventData.scope[1] = "forged" ]
    /\ history' = CountOp
    /\ UNCHANGED << extVars, corridor, now, tokens, ActiveCapabilityTokens, sysVars,
                    adapters, invocations, proc, last >>

\* The caller assigns to an element of the slice it passed to AppendTokenMint:
\* the receipt's event data holds that slice.
Caller_SetPassed(i) ==
    /\ history.ops < MaxOps
    /\ receipts' = [ receipts EXCEPT ![i].EventData.scope[1] = "changed" ]
    /\ history' = CountOp
    /\ UNCHANGED << extVars, corridor, now, tokens, ActiveCapabilityTokens, sysVars,
                    adapters, invocations, proc, last >>

NextCopy ==
    \/ \E ev \in AppendCalls : Ledger_Append(ev)
    \/ Ledger_GetReceipts
    \/ Caller_Truncate
    \/ \E j \in DOMAIN client.got : Caller_Overwrite(j)
    \/ \E j \in HeldMaps :
           \E k \in DOMAIN receipts[client.got[j].EventData].EventData :
               \E v \in OtherValues(receipts[client.got[j].EventData].EventData, k) :
                   Caller_SetEventData(j, k, v)
    \/ \E j \in HeldMaps : Caller_SetScope(j)
    \/ \E i \in client.passed : Caller_SetPassed(i)
    \/ Ledger_Verify

SpecCopy == InitLedger /\ [][NextCopy]_vars

\* ---------------------------------------------------------- memory.Manager
\* What the callers of the Manager pass.
MemoryPartitions ==
    { PartitionQuarantine, PartitionDurable, PartitionProvenance, PartitionEvidence,
      "nonexistent" }
MemoryIds == { "untrusted_1", "suspicious_1" }
MemoryContents == { "untrusted content", "suspicious content" }
MemoryMetadata == { NilMetadata, [ source |-> "test" ] }
VerificationRecords == { "", "verification_signature_xyz" }

\* A new Manager and its callers.
InitMemory == InitCaller /\ adapters = {}

\* Manager.Write, under the manager's lock.
Manager_Write(partition, id, content, metadata) ==
    /\ history.ops < MaxOps
    /\ memory' = Write(memory, partition, id, content, metadata)
    /\ last' = [ IdleProc EXCEPT !.kind = "write", !.call = NewCall,
                                 !.args = <<partition, id, content>>,
                                 !.err = WriteError(memory, partition, id) ]
    /\ history' = CountCall
    /\ UNCHANGED << client, app, corridor, now, tokens, ActiveCapabilityTokens, sysVars,
                    receipts, adapters, invocations, proc >>

\* Manager.Read, under the manager's read lock.
Manager_Read(partition, id) ==
    /\ last' = [ IdleProc EXCEPT !.kind = "read", !.args = <<partition, id>>,
                                 !.err = Read(memory, partition, id).err,
                                 !.resp.Content = Read(memory, partition, id).entry.Content ]
    /\ UNCHANGED << extVars, corridor, now, tokens, ActiveCapabilityTokens, sysVars,
                    receipts, adapters, invocations, proc, history >>

\* Manager.PromoteFromQuarantine, under the manager's lock. history.promoted:
\* the ids for which a call with a record has returned nil.
Manager_Promote(id, verificationRecord) ==
    /\ history.ops < MaxOps
    /\ memory' = PromoteFromQuarantine(memory, id, verificationRecord)
    /\ last' = [ IdleProc EXCEPT !.kind = "promote", !.call = NewCall,
                                 !.args = <<id, verificationRecord>>,
                                 !.err = PromoteError(memory, id, verificationRecord) ]
    /\ history' = [ CountCall EXCEPT !.promoted =
                        IF PromoteError(memory, id, verificationRecord) = ""
                           /\ verificationRecord # ""
                        THEN @ \cup { id } ELSE @ ]
    /\ UNCHANGED << client, app, corridor, now, tokens, ActiveCapabilityTokens, sysVars,
                    receipts, adapters, invocations, proc >>

NextMemory ==
    \/ \E partition \in MemoryPartitions, id \in MemoryIds :
           \E content \in MemoryContents, metadata \in MemoryMetadata :
               Manager_Write(partition, id, content, metadata)
    \/ \E partition \in MemoryPartitions, id \in MemoryIds : Manager_Read(partition, id)
    \/ \E id \in MemoryIds, record \in VerificationRecords : Manager_Promote(id, record)

SpecMemory == InitMemory /\ [][NextMemory]_vars

\* ------------------------------------------------------------ the gateway
\* The Go kernel at rest beside the gateway.
GoIdle ==
    /\ now = 0
    /\ tokens = <<>>
    /\ ActiveCapabilityTokens = <<>>
    /\ IntegrityState = IntegrityOK
    /\ PostureLevel = P1
    /\ GovernanceRules = NoRules
    /\ ActiveConsents = {}
    /\ receipts = NewLedger(0)
    /\ adapters = {}
    /\ invocations = <<>>
    /\ proc = [ p \in Procs |-> IdleProc ]
    /\ last = IdleProc
    /\ corridor = NewKernel
    /\ client = NoClient
    /\ memory = NewManager
    /\ history = [ ops |-> 0, calls |-> 0, stops |-> 0, tok |-> <<>>, promoted |-> {} ]

goVars ==
    << client, memory, now, tokens, ActiveCapabilityTokens, sysVars, receipts, adapters,
       invocations, proc, last, corridor >>

\* The clock of the gateway's machine advances by d milliseconds, up to maxMs.
Gateway_Tick(d, maxMs) ==
    /\ app.ms + d <= maxMs
    /\ app' = [ app EXCEPT !.ms = @ + d ]
    /\ UNCHANGED << goVars, history >>

\* Writes to audit.log begin to fail, or succeed again.
Disk_Toggle ==
    /\ app' = [ app EXCEPT !.writable = ~@ ]
    /\ UNCHANGED << goVars, history >>

\* The process is started again: new App() on the same machine.
Gateway_Restart ==
    /\ history.ops < MaxOps
    /\ app' = NewApp(app, app.rpm)
    /\ history' = CountOp
    /\ UNCHANGED goVars

\* Audit.append(kind, msg) reads the clock, before it takes the lock.
Append_Now(w, kind, msg) ==
    /\ history.ops < MaxOps
    /\ app.req[w].pc = "idle"
    /\ app' = [ app EXCEPT !.req[w] = [ IdleReq EXCEPT !.pc = "append", !.kind = kind,
                                                        !.msg = msg,
                                                        !.ts = app.ms \div 1000 ] ]
    /\ history' = CountOp
    /\ UNCHANGED goVars

\* Audit.append: the synchronized block.
Append_Sync(w) ==
    /\ app.req[w].pc = "append"
    /\ LET a == append([ head |-> app.head, file |-> app.disk ], app.req[w].kind,
                       app.req[w].msg, app.req[w].ts, app.writable)
       IN  app' = [ app EXCEPT !.head = a.head, !.disk = a.file, !.req[w] = IdleReq ]
    /\ UNCHANGED << goVars, history >>

\* The kinds and messages Audit.append is called with: a fixed text, the
\* message of an exception that has none, one with a line break in it.
AuditKinds == { "ASK_ALLOW", "ASK_DENY" }
AuditMessages == { <<"ok">>, null, <<"For input string: ", "\n", "12">> }

InitAudit == GoIdle /\ app \in { NewApp([ NoApp EXCEPT !.writable = wr ], rpmPerIp) : wr \in BOOLEAN }

NextAudit ==
    \/ \E w \in Workers, kind \in AuditKinds, msg \in AuditMessages : Append_Now(w, kind, msg)
    \/ \E w \in Workers : Append_Sync(w)
    \/ Gateway_Restart
    \/ Disk_Toggle
    \/ Gateway_Tick(1000, 1000)

SpecAudit == InitAudit /\ [][NextAudit]_vars

\* clientIp(ex): one client.
clientIp == "127.0.0.1"

\* The catch block of App.ask and App.toolRun at clock reading nowS: the
\* denial is appended to the audit and sent with the hash append returned.
Deny(a, w, route, msg, nowS) ==
    LET au == append([ head |-> a.head, file |-> a.disk ],
                     IF route = "ask" THEN "ASK_DENY" ELSE "TOOL_DENY", msg, nowS,
                     a.writable)
    IN  [ a EXCEPT !.head = au.head, !.disk = au.file, !.req[w] = IdleReq,
                   !.resp = Response(route,
                                     IF route = "ask" /\ msg[1] = "CIF:" THEN 400 ELSE 403,
                                     "DENY", msg, au.head) ]

\* The end of the try block of App.ask and App.toolRun for the request r at
\* clock reading nowS: the model stub or the tool has run, the audit line is
\* appended and the response is sent. effects keeps the audit_ref sent.
Allow(a, w, r, nowS) ==
    LET au == append([ head |-> a.head, file |-> a.disk ],
                     IF r.route = "ask" THEN "ASK_ALLOW" ELSE "TOOL_OK",
                     IF r.route = "ask" THEN <<"ok">> ELSE AsString(r.body.tool, null),
                     nowS, a.writable)
    IN  [ a EXCEPT !.head = au.head, !.disk = au.file, !.req[w] = IdleReq,
                   !.resp = Response(r.route, 200, "ALLOW", <<"ok">>, au.head),
                   !.effects = Append(@, [ route |-> r.route, body |-> r.body,
                                           consent |-> r.consent, cap |-> r.cap,
                                           ref |-> au.head, started |-> r.ts,
                                           at |-> nowS ]) ]

\* The exception thrown in App.ask and App.toolRun before the nonce check, at
\* clock reading nowS; <<>> when none is.
BeforeNonce(a, route, body, consentToken, nowS) ==
    IF ~a.writable THEN <<"audit unavailable">>
    ELSE IF readChecked(body) # <<>> THEN readChecked(body)
    ELSE IF route = "tool" /\ checkToolAllowed(AsString(body.tool, null)) # <<>>
    THEN checkToolAllowed(AsString(body.tool, null))
    ELSE verifyConsentPayload(SigBox("consent-root", a.gen), consentToken, nowS)

\* App.ask and App.toolRun from the rate limit to the expiry check of the
\* consent token, with what the request carries.
Request_Start(w, route, body, consentToken, capToken) ==
    /\ history.ops < MaxOps
    /\ app.req[w].pc = "idle"
    /\ LET nowS == app.ms \div 1000
           key == <<route, clientIp>>
           map == computeIfAbsent(app.map, key, Cap(app.rpm), app.ms)
           rl == allow(map[key], Cap(app.rpm), app.ms)
           a == [ app EXCEPT !.map = [ map EXCEPT ![key] = rl.bucket ] ]
           tried == [ a EXCEPT !.disk = canPersist(@, a.writable) ]
       IN  app' = IF ~rl.ok
                  THEN [ a EXCEPT !.resp = Response(route, 429, "", <<"rate limited">>, a.head) ]
                  ELSE IF BeforeNonce(a, route, body, consentToken, nowS) # <<>>
                  THEN Deny(tried, w, route, BeforeNonce(a, route, body, consentToken, nowS), nowS)
                  ELSE [ tried EXCEPT !.req[w] =
                             [ IdleReq EXCEPT !.pc = "verified", !.route = route,
                                              !.body = body, !.consent = consentToken,
                                              !.cap = capToken, !.ts = nowS ] ]
    /\ history' = CountOp
    /\ UNCHANGED goVars

\* The exception thrown from the nonce check on, at clock reading nowS, when
\* verifyConsent gave err: verifyCap and Tools.run on the tool route.
AfterNonce(a, r, err, nowS) ==
    IF err # <<>> \/ r.route = "ask" THEN err
    ELSE IF verifyCap(SigBox("cap-root", a.gen), r.cap, AsString(r.body.tool, null), nowS) # <<>>
    THEN verifyCap(SigBox("cap-root", a.gen), r.cap, AsString(r.body.tool, null), nowS)
    ELSE run(AsString(r.body.tool, null))

\* App.ask and App.toolRun from the nonce check to the response.
Request_Finish(w) ==
    /\ app.req[w].pc = "verified"
    /\ LET r == app.req[w]
           nowS == app.ms \div 1000
           vc == verifyConsent(app.seen, r.consent, ActHash(r.route, r.body), nowS)
           a == [ app EXCEPT !.seen = vc.seen ]
       IN  app' = IF AfterNonce(a, r, vc.err, nowS) # <<>>
                  THEN Deny(a, w, r.route, AfterNonce(a, r, vc.err, nowS), nowS)
                  ELSE Allow(a, w, r, nowS)
    /\ UNCHANGED << goVars, history >>

\* App.devConsentMint with enableDevMint set, for the action object the
\* caller sends as act_json: the nonce is a new UUID.
Dev_ConsentMint(actObj) ==
    /\ history.ops < MaxOps
    /\ LET nowS == app.ms \div 1000
           nonce == <<"uuid-", ToString(Len(app.minted) + 1)>>
           tok == mintConsent(SigBox("consent-root", app.gen), consentAudience,
                              consentTtlSeconds, nonce,
                              computeActHash(canonicalJsonSorted(actObj)), nowS)
           au == append([ head |-> app.head, file |-> app.disk ], "DEV_CONSENT_MINT",
                        <<"ok">>, nowS, app.writable)
       IN  app' = [ app EXCEPT !.head = au.head, !.disk = au.file,
                               !.minted = Append(@, tok) ]
    /\ history' = CountOp
    /\ UNCHANGED goVars

\* App.devCapMint with enableDevMint set, for the scopes the caller sends.
Dev_CapMint(scopes) ==
    /\ history.ops < MaxOps
    /\ LET nowS == app.ms \div 1000
           tok == mintCap(SigBox("cap-root", app.gen), capAudience, capTtlSeconds,
                          scopes, nowS)
           au == append([ head |-> app.head, file |-> app.disk ], "DEV_CAP_MINT",
                        <<"[">> \o scopes[1] \o <<"]">>, nowS, app.writable)
       IN  app' = [ app EXCEPT !.head = au.head, !.disk = au.file,
                               !.minted = Append(@, tok) ]
    /\ history' = CountOp
    /\ UNCHANGED goVars

\* What the clients send: bodies for /v1/ask and /v1/tool/run, and, as
\* tokens, nothing or a token that has been minted (a capability token sent
\* as consent token has the signature of the wrong key).
AskHello == Body("application/json", 64, JString(<<"hello">>), Absent, <<>>)
AskOther == Body("application/json", 64, JString(<<"other">>), Absent, <<>>)
EchoText == Body("application/json", 64, Absent, JString(<<"echo">>), << <<"n", JString(<<"1">>)>> >>)
EchoNumber == Body("application/json", 64, Absent, JString(<<"echo">>), << <<"n", JNumber(<<"2">>)>> >>)
EchoUpper == Body("application/json", 64, Absent, JString(<<"ECHO">>), << <<"n", JString(<<"1">>)>> >>)
TimeTool == Body("application/json", 64, Absent, JString(<<"time">>), <<>>)
HttpGet == Body("application/json", 64, Absent, JString(<<"net/", "http_get">>), <<>>)
Presented == { NoToken } \cup { app.minted[i] : i \in DOMAIN app.minted }

\* A second past the consent TTL, and a second past the nonce TTL.
ConsentTicks == { (consentTtlSeconds + 1) * 1000, (nonceTtlSeconds + 1) * 1000 }

InitGateway == GoIdle /\ app = NewApp(NoApp, rpmPerIp)

\* The gateway with clients that ask and run echo, and time passing.
NextConsent ==
    \/ \E actObj \in { AskAction(AskHello), ToolAction(EchoText) } : Dev_ConsentMint(actObj)
    \/ Dev_CapMint(<< <<"tool:", "echo">> >>)
    \/ \E w \in Workers, body \in { AskHello, AskOther }, consentToken \in Presented :
           Request_Start(w, "ask", body, consentToken, NoToken)
    \/ \E w \in Workers, body \in { EchoText, EchoNumber, TimeTool }, consentToken \in Presented, capToken \in Presented :
           Request_Start(w, "tool", body, consentToken, capToken)
    \/ \E w \in Workers : Request_Finish(w)
    \/ \E d \in ConsentTicks : Gateway_Tick(d, (nonceTtlSeconds + 1) * 1000)

SpecConsent == InitGateway /\ [][NextConsent]_vars

\* The gateway with clients that run tools, among them one spelled in
\* capitals and the network tool, and capability tokens that expire.
ToolBodies == { EchoText, EchoUpper, HttpGet }
CapScopes ==
    { << <<"tool:", "echo">> >>, << <<"tool:", "ECHO">> >>, << <<"tool:", "net/", "http_get">> >> }

NextTool ==
    \/ \E body \in ToolBodies : Dev_ConsentMint(ToolAction(body))
    \/ \E scopes \in CapScopes : Dev_CapMint(scopes)
    \/ \E w \in Workers, body \in ToolBodies, consentToken \in Presented, capToken \in Presented :
           Request_Start(w, "tool", body, consentToken, capToken)
    \/ \E w \in Workers : Request_Finish(w)
    \/ Gateway_Tick((capTtlSeconds + 1) * 1000, (capTtlSeconds + 1) * 1000)

SpecTool == InitGateway /\ [][NextTool]_vars

\* The gateway with an audit.log whose writes begin to fail at any point.
NextFailClosed ==
    \/ \E actObj \in { AskAction(AskHello), ToolAction(EchoText) } : Dev_ConsentMint(actObj)
    \/ Dev_CapMint(<< <<"tool:", "echo">> >>)
    \/ \E w \in Workers, consentToken \in Presented :
           Request_Start(w, "ask", AskHello, consentToken, NoToken)
    \/ \E w \in Workers, consentToken \in Presented, capToken \in Presented :
           Request_Start(w, "tool", EchoText, consentToken, capToken)
    \/ \E w \in Workers : Request_Finish(w)
    \/ Disk_Toggle

SpecFailClosed == InitGateway /\ [][NextFailClosed]_vars

\* ---- RateLimiter.allow, called by rateOk with the key route + "|" + ip.
\* The number of calls of allow in a behaviour.
MaxAllow == 7

\* The calls of allow so far, finished or not.
AllowCalls == Len(app.served) + Cardinality({ w \in Workers : app.req[w].pc = "allow" })

\* RateLimiter.allow(key) up to the lock: the clock is read (ts keeps the
\* milliseconds) and the bucket is looked up or made.
Allow_Start(w, route) ==
    /\ AllowCalls < MaxAllow
    /\ app.req[w].pc = "idle"
    /\ app' = [ app EXCEPT !.map = computeIfAbsent(@, <<route, clientIp>>, Cap(app.rpm), app.ms),
                           !.req[w] = [ IdleReq EXCEPT !.pc = "allow", !.route = route,
                                                        !.ts = app.ms ] ]
    /\ UNCHANGED << goVars, history >>

\* RateLimiter.allow(key): the synchronized block. served keeps the key, the
\* clock reading and the result.
Allow_Locked(w) ==
    /\ app.req[w].pc = "allow"
    /\ LET key == <<app.req[w].route, clientIp>>
           r == allow(app.map[key], Cap(app.rpm), app.req[w].ts)
       IN  app' = [ app EXCEPT !.map[key] = r.bucket, !.req[w] = IdleReq,
                               !.served = Append(@, [ key |-> key, now |-> app.req[w].ts,
                                                      ok |-> r.ok ]) ]
    /\ UNCHANGED << goVars, history >>

\* The milliseconds in which a bucket of capacity cap gains one token.
RefillInterval(cap) == (PerMinute + cap - 1) \div cap

\* The configured rates: one below the minimum capacity and one above.
RateRpms == { 1, 6 }
Routes == { "ask", "tool" }

InitRate == GoIdle /\ app \in { NewApp(NoApp, rpm) : rpm \in RateRpms }

NextRate ==
    \/ \E w \in Workers, route \in Routes : Allow_Start(w, route)
    \/ \E w \in Workers : Allow_Locked(w)
    \/ \E d \in { RefillInterval(Cap(app.rpm)) - 1, RefillInterval(Cap(app.rpm)) } :
           Gateway_Tick(d, RefillInterval(Cap(app.rpm)))

SpecRate == InitRate /\ [][NextRate]_vars

TypeOK ==
    /\ now \in Nat
    /\ history.ops \in 0..MaxOps
    /\ Len(history.tok) = Len(tokens)
    /\ \A d \in DOMAIN ActiveCapabilityTokens :
           /\ ActiveCapabilityTokens[d] \in DOMAIN tokens
           /\ tokens[ActiveCapabilityTokens[d]].Digest = d
    /\ \A p \in Procs : proc[p].pc \in { "idle", "decided", "minted", "kernel_check",
                                        "registry_invoke", "adapter_invoke", "attempt" }

\* ------------------------------------------------------------- properties
\* The calls in progress and the call that returned last.
Calls == { proc[p] : p \in Procs } \cup { last }

ReceiptsOf(eventType) == { i \in DOMAIN receipts : receipts[i].EventType = eventType }

\* C1: a call of Execute whose CDI decision is DENY returns an unsuccessful
\* response, and nothing comes of that call: no token of it exists or is in
\* ActiveCapabilityTokens, no token_mint receipt of it is in the ledger and the
\* adapter has recorded no invocation of it.
DenyBlocksExecution ==
    \A c \in Calls :
        (c.kind = "execute" /\ c.decision.Decision = DENY) =>
            /\ c.resp.returned => ~c.resp.Success
            /\ c.pc \in {"decided", "idle"}
            /\ \A t \in DOMAIN tokens : history.tok[t].call # c.call
            /\ \A i \in ReceiptsOf("token_mint") : receipts[i].call # c.call
            /\ \A i \in DOMAIN invocations : invocations[i].call # c.call

\* A denied call has returned after an earlier call minted a token and reached
\* the adapter.
DenyBlocksExecution_Witness ==
    /\ last.kind = "execute" /\ last.resp.returned
    /\ last.decision.Decision = DENY
    /\ tokens # <<>> /\ invocations # <<>>

\* C7: every adapter_attempt receipt comes after a token_mint receipt with the
\* same token digest, which comes after a cdi_decision receipt of the attempt's
\* request whose decision is ALLOW or DEGRADE.
AttemptHasProvenance ==
    \A i \in ReceiptsOf("adapter_attempt") :
        \E j \in ReceiptsOf("token_mint") :
            /\ j < i
            /\ receipts[j].EventData.token_digest = receipts[i].EventData.token_digest
            /\ \E k \in ReceiptsOf("cdi_decision") :
                   /\ k < j
                   /\ receipts[k].call = receipts[i].call
                   /\ receipts[k].EventData.decision \in {ALLOW, DEGRADE}

\* An attempt was logged after a stop event or an integrity change.
AttemptHasProvenance_Witness ==
    \E i \in ReceiptsOf("adapter_attempt") :
        \E j \in ReceiptsOf("stop_event") \cup ReceiptsOf("integrity_state_change") : j < i

\* The twelve stages of a call that ran to the end, for decision value d.
FullTrail(d) ==
    << "cif_ingress_start", "cif_ingress_complete", "cdi_decision_start",
       CdiDecisionStage(d), "token_mint_start", "token_mint_complete",
       "kernel_execute_start", "kernel_execute_complete",
       "cdi_output_decision_start", "cdi_output_decision_complete",
       "cif_egress_start", "cif_egress_complete" >>

IsProperPrefix(s, t) == Len(s) < Len(t) /\ SubSeq(t, 1, Len(s)) = s

\* The decision values the trail of call c can name.
TrailDecisions(c) ==
    IF c.decision.Decision = "" THEN {ALLOW, DENY, DEGRADE} ELSE {c.decision.Decision}

\* C8: the AuditTrail of a successful Execute is exactly the twelve stages, with
\* the decision's value in the fourth; the AuditTrail of an unsuccessful one is a
\* proper prefix of them, optionally followed by deny_terminal.
AuditTrailOrder ==
    (last.kind = "execute" /\ last.resp.returned) =>
        LET trail == last.resp.AuditTrail IN
        \E d \in TrailDecisions(last) :
            IF last.resp.Success
            THEN trail = FullTrail(d)
            ELSE \/ IsProperPrefix(trail, FullTrail(d))
                 \/ /\ trail # <<>>
                    /\ trail[Len(trail)] = "deny_terminal"
                    /\ IsProperPrefix(SubSeq(trail, 1, Len(trail) - 1), FullTrail(d))

\* A call succeeded after a call failed.
AuditTrailOrder_Witness ==
    /\ last.kind = "execute" /\ last.resp.returned /\ last.resp.Success
    /\ last.call > 1

\* The tokens that AddToken had registered before the k-th STOP began.
RegisteredBefore(k) ==
    { t \in DOMAIN tokens :
        history.tok[t].regStops # NotRegistered /\ history.tok[t].regStops < k }

\* C2: once RevokeAllTokens has returned, every token that AddToken registered
\* before it has RevokedAt set, and Token.Verify rejects it as revoked at every
\* posture.
StopRevokesAllTokens ==
    \A t \in RegisteredBefore(history.stops) :
        /\ tokens[t].RevokedAt # NoTime
        /\ \A posture \in PostureArgs :
               Verify(tokens[t], IsRevoked(t), posture, now) = "revoked"

\* C3: the adapter's Invoke does not run for a token after a RevokeAllTokens has
\* returned that was still running, or not yet called, when the token was minted.
StopDominatesInFlight ==
    \A i \in DOMAIN invocations :
        invocations[i].stops <= history.tok[invocations[i].tok].stops

\* How many of the receipts 1..i are stop events.
StopsUpTo(i) == Cardinality({ j \in ReceiptsOf("stop_event") : j <= i })

\* C4: every call of RevokeAllTokens appends exactly one stop_event receipt, and
\* its tokens_revoked is the number of tokens minted and registered before the call.
StopEventCountsTokens ==
    /\ Cardinality(ReceiptsOf("stop_event")) = history.stops
    /\ \A i \in ReceiptsOf("stop_event") :
           receipts[i].EventData.tokens_revoked =
               Cardinality(RegisteredBefore(StopsUpTo(i)))

\* C5: an invocation that came through Registry.Invoke was recorded after the
\* adapter's VerifyToken returned no error in the same call; a call of
\* Registry.Invoke that found no adapter, or whose VerifyToken returned an error,
\* returns an error and no invocation of that call is recorded.
VerifyThenInvoke ==
    /\ \A i \in DOMAIN invocations :
           invocations[i].via = "registry" => invocations[i].verifyErr = ""
    /\ \A c \in Calls :
           (c.kind \in {"registry", "execute"} /\ c.err # "") =>
               /\ \A i \in DOMAIN invocations : invocations[i].call # c.call
               /\ c.resp.returned => ~c.resp.Success

\* A call of Registry.Invoke was refused for its token after another was let
\* through to the adapter.
VerifyThenInvoke_Witness ==
    /\ last.kind = "registry" /\ last.resp.returned
    /\ last.err \in { "nil token", "revoked", "expired", "posture_below_minimum",
                      "posture_above_maximum", "no scope for adapter" }
    /\ \E i \in DOMAIN invocations : invocations[i].via = "registry"

\* C6: the adapter records no invocation for a token that is absent, revoked,
\* expired, outside its posture bounds or without the adapter's scope at the
\* time of the call, whichever way the adapter was called.
AdapterChecksToken ==
    \A i \in DOMAIN invocations : invocations[i].valid

\* The calls for which a decision has been made.
Decided == { c \in Calls : c.decision # NoDecision }

\* The first of Decide's checks that a context fails, among those that come
\* before the check of the rule set.
EarlierDenial(ctx) ==
    IF ctx.IntegrityState = IntegrityVoid THEN "integrity_void"
    ELSE IF IsTainted(ctx.Request) THEN "tainted_input"
    ELSE IF ctx.PostureLevel = 0 THEN "undefined_posture"
    ELSE ""

\* Nothing has come of the call of Execute with this number.
NoCapability(call) ==
    /\ \A t \in DOMAIN tokens : history.tok[t].call # call
    /\ \A i \in DOMAIN invocations : invocations[i].call # call

\* Nothing has come of the call of ExecuteCorridor with this number.
NoCorridorCapability(call) ==
    /\ \A i \in DOMAIN corridor.minted : corridor.minted[i].call # call
    /\ \A i \in DOMAIN corridor.invoked : corridor.invoked[i].call # call

UndefinedPostureReason ==
    \A c \in Decided :
        (c.ctx.Request.SensitivityLevel = "high" /\ c.ctx.PostureLevel = 0) =>
            /\ c.decision.Decision = DENY
            /\ c.decision.Reason = "undefined_posture"

\* C10, amended: Decide on a request of high sensitivity at posture 0 returns
\* DENY, whatever the rule set and the consents; the reason is undefined_posture
\* when the integrity is not void and the request is not tainted, integrity_void
\* when the integrity is void, and tainted_input otherwise.
UndefinedPostureDenies ==
    \A c \in Decided :
        (c.ctx.Request.SensitivityLevel = "high" /\ c.ctx.PostureLevel = 0) =>
            /\ c.decision.Decision = DENY
            /\ c.decision.Reason =
                   IF c.ctx.IntegrityState = IntegrityVoid THEN "integrity_void"
                   ELSE IF IsTainted(c.ctx.Request) THEN "tainted_input"
                   ELSE "undefined_posture"

\* Decide has denied a clean request of high sensitivity at posture 0 for the
\* posture, with rules and the consent present.
UndefinedPostureDenies_Witness ==
    /\ last.kind = "decide"
    /\ last.ctx.Request.SensitivityLevel = "high" /\ last.ctx.PostureLevel = 0
    /\ last.ctx.GovernanceRules = SomeRules
    /\ last.ctx.ActiveConsents = {"high_risk_operations"}
    /\ last.decision.Reason = "undefined_posture"

\* The ordered table of decisions: each rule is a condition on the context with
\* the decision, the reason and the scope it gives.
DecisionTable(ctx) ==
    << << ctx = NoCtx, DENY, "nil context", {} >>,
       << ctx.IntegrityState = IntegrityVoid, DENY, "integrity_void", {} >>,
       << IsTainted(ctx.Request), DENY, "tainted_input", {} >>,
       << ctx.PostureLevel = 0, DENY, "undefined_posture", {} >>,
       << ctx.GovernanceRules = NilRules, DENY, "missing_governance", {} >>,
       << ctx.Request.SensitivityLevel = "high"
            /\ "high_risk_operations" \notin ctx.ActiveConsents,
          DENY, "high_risk_requires_consent", {} >>,
       << ctx.IntegrityState = IntegrityDegraded, DEGRADE, "integrity_degraded",
          {"read_only", "query"} >>,
       << ctx.Request.SensitivityLevel = "low" /\ ~IsTainted(ctx.Request), ALLOW,
          "clean_low_sensitivity", {"*"} >>,
       << ctx.Request.SensitivityLevel = "medium", DEGRADE, "medium_sensitivity",
          {"query", "search", "read"} >>,
       << TRUE, DENY, "unknown_case", {} >> >>

FirstMatch(ctx) ==
    LET table == DecisionTable(ctx)
        i == CHOOSE k \in DOMAIN table :
                 table[k][1] /\ \A j \in 1..(k - 1) : ~table[j][1]
    IN  table[i]

DegradeWeakerThanAllow ==
    \A c \in Decided :
        c.decision.Decision = DEGRADE =>
            /\ c.decision.DegradedScope # <<>>
            /\ "*" \notin Range(c.decision.DegradedScope)
            /\ \A a \in Decided :
                   a.decision.Decision = ALLOW =>
                       /\ Range(a.decision.DegradedScope) = {"*"}
                       /\ Range(c.decision.DegradedScope) # Range(a.decision.DegradedScope)
            /\ c.tok # 0 =>
                   /\ tokens[c.tok].Scope = c.decision.DegradedScope
                   /\ "*" \notin Range(tokens[c.tok].Scope)

\* A call decided DEGRADE has returned with its token minted, and a call
\* decided ALLOW holds its own token.
DegradeWeakerThanAllow_Witness ==
    /\ last.kind = "execute" /\ last.resp.returned
    /\ last.decision.Decision = DEGRADE /\ last.tok # 0
    /\ \E p \in Procs :
           /\ proc[p].decision.Decision = ALLOW /\ proc[p].tok # 0
           /\ tokens[proc[p].tok].Scope = <<"*">>

\* The decisions made on a context with the given integrity state.
DecidedUnder(state) == { c \in Decided : c.ctx.IntegrityState = state }

\* The decisions are gated by the integrity state they were made in: DENY under
\* INTEGRITY_VOID; DENY, or DEGRADE with scope {read_only, query}, under
\* INTEGRITY_DEGRADED.
IntegrityGatesDecisions ==
    /\ \A c \in DecidedUnder(IntegrityVoid) : c.decision.Decision = DENY
    /\ \A c \in DecidedUnder(IntegrityDegraded) :
           c.decision.Decision # DENY =>
               /\ c.decision.Decision = DEGRADE
               /\ Range(c.decision.DegradedScope) = {"read_only", "query"}

\* C13: integrity gating. Every decision made while the integrity state is
\* INTEGRITY_VOID is DENY, and while the state is INTEGRITY_VOID no step of
\* Execute invokes an adapter; every decision made while the state is
\* INTEGRITY_DEGRADED is DENY or is DEGRADE with scope {read_only, query}.
IntegrityGating ==
    [][ /\ IntegrityGatesDecisions
        /\ IntegrityState = IntegrityVoid => invocations' = invocations ]_vars

\* The checks of a token at a call of Verify, in their order, each with the
\* error of its failure.
TokenChecks(c) ==
    << << ~c.seenRevoked, "revoked" >>,
       << ~(c.at > tokens[c.tok].ExpiresAt), "expired" >>,
       << tokens[c.tok].MinPosture <= c.posture, "posture_below_minimum" >>,
       << c.posture <= tokens[c.tok].MaxPosture, "posture_above_maximum" >> >>

\* C14: Token.Verify(currentPosture) returns valid exactly when the token is not
\* revoked, the time is not after ExpiresAt and the posture is within
\* MinPosture..MaxPosture; otherwise it returns the error of the first check that
\* fails, in the order revoked, expired, below minimum, above maximum.
TokenVerifyExact ==
    \A c \in Calls :
        c.kind = "verify" =>
            LET checks == TokenChecks(c)
                failing == { i \in DOMAIN checks : ~checks[i][1] }
            IN  /\ (c.err = "") <=> (failing = {})
                /\ failing # {} =>
                       \E i \in failing :
                           /\ \A j \in failing : i <= j
                           /\ c.err = checks[i][2]

\* Verify has refused a token that is revoked, has expired and is below its
\* minimum posture, with the error of the first of these checks.
TokenVerifyExact_Witness ==
    /\ last.kind = "verify"
    /\ \A i \in 1..3 : ~TokenChecks(last)[i][1]
    /\ last.err = "revoked"

\* The chain of a ledger is well formed: the first receipt is the genesis
\* receipt, the sequence numbers count from 0, each receipt's PrevHash is the
\* CurrentHash of the one before it, and each CurrentHash is the hash of the
\* receipt's five other fields.
WellFormed(ledger) ==
    /\ Len(ledger) >= 1
    /\ ledger[1].EventType = "genesis"
    /\ ledger[1].PrevHash = GenesisPrevHash
    /\ \A i \in DOMAIN ledger :
           /\ ledger[i].Sequence = i - 1
           /\ ledger[i].CurrentHash =
                  Sha256(<<ledger[i].Sequence, ledger[i].Timestamp, ledger[i].EventType,
                           FormatMap(ledger[i].EventData), ledger[i].PrevHash>>)
           /\ i > 1 => ledger[i].PrevHash = ledger[i - 1].CurrentHash

\* C15: under any interleaving of concurrent Append* callers the ledger's chain
\* is well formed in every state (genesis first with sequence 0 and PrevHash
\* "0000000000000000", receipt i with sequence i, PrevHash linked to the receipt
\* before, CurrentHash the recomputed hash), no step removes or changes a receipt
\* that is there, and Verify returns true.
LedgerChainWellFormed ==
    [][ /\ WellFormed(receipts) /\ WellFormed(receipts')
        /\ Len(receipts') >= Len(receipts)
        /\ SubSeq(receipts', 1, Len(receipts)) = receipts
        /\ LedgerVerify(receipts') = ""
        /\ client'.verify.called => client'.verify.valid ]_vars

\* Verify has been called on a ledger with an appended receipt while two
\* Append* calls wait for the lock.
LedgerChainWellFormed_Witness ==
    /\ Len(receipts) >= 2
    /\ client.verify.called /\ client.verify.valid
    /\ \A g \in Goroutines : client.pending[g] # NoAppend

\* C16: tamper evidence. Verify on a ledger nobody has tampered with returns
\* true; after one field (sequence, timestamp, event type, event data, previous
\* hash or current hash) of one receipt of a ledger with two receipts or more
\* has been changed, Verify returns false with a hash mismatch or a chain break.
TamperEvident ==
    client.verify.called =>
        IF client.verify.tampered = <<>> THEN client.verify.valid
        ELSE /\ ~client.verify.valid
             /\ client.verify.err \in { "hash mismatch", "chain break" }

\* The part of C16 that the ledger keeps: a change of a field other than the
\* event data is reported by Verify.
TamperOfHashedFieldEvident ==
    (client.verify.called /\ client.verify.tampered # <<>>
        /\ client.verify.tampered[2] # "EventData") =>
            client.verify.err \in { "hash mismatch", "chain break" }

\* C17: GetReceipts returns a defensive copy. Whatever the caller does to the
\* receipts it got (cutting the slice, overwriting a receipt, changing a
\* receipt's EventData or the scope inside it) and to the data it passed to an
\* Append* call, the ledger's receipts change only by an append, and Verify
\* returns true.
DefensiveCopy ==
    [][ /\ Len(receipts') = Len(receipts) => receipts' = receipts
        /\ LedgerVerify(receipts') = ""
        /\ client'.verify.called => client'.verify.valid ]_vars

\* The part of C17 that holds: cutting the slice and overwriting its receipts
\* leave the ledger as it is.
CopiedSliceIsOwn ==
    [][ client'.got # client.got => receipts' = receipts ]_vars

\* The contents that pass through Execute: the raw inputs of the requests,
\* their sanitized inputs, the adapter's output and what egress makes of it.
Contents ==
    ({ q.RawInput : q \in Requests } \cup { sanitizeInput(q.RawInput) : q \in Requests }
        \cup { MockMessage }
        \cup { c.resp.Content : c \in Calls }) \ { <<>> }

\* The digests of the tokens minted so far.
Digests == { tokens[t].Digest : t \in DOMAIN tokens }

\* C18: mechanics-only audit. After any sequence of Execute, RevokeAllTokens
\* and SetIntegrityState calls no receipt holds a request's raw input, its
\* sanitized input or the adapter's output; a receipt holds only a decision
\* value, content hashes, a token digest, a scope, an adapter name with the
\* flag of its acceptance, a state name or a count (the genesis receipt holds
\* its fixed message).
MechanicsOnly ==
    \A i \in DOMAIN receipts :
        LET d == receipts[i].EventData
            t == receipts[i].EventType
        IN  CASE t = "genesis" -> d = [ message |-> "audit ledger initialized" ]
              [] t = "cdi_decision" ->
                     /\ DOMAIN d = { "decision", "input_hash", "output_hash" }
                     /\ d.decision \in { ALLOW, DENY, DEGRADE }
                     /\ d.input_hash \in { Sha256(sanitizeInput(q.RawInput)) : q \in Requests }
                     /\ d.output_hash = ""
                     /\ \A c \in Contents : d.input_hash # c
              [] t = "token_mint" ->
                     /\ DOMAIN d = { "token_digest", "scope" }
                     /\ d.token_digest \in Digests
                     /\ d.scope \in { <<"*">>, <<"read_only", "query">>,
                                      <<"query", "search", "read">> }
                     /\ \A c \in Contents : d.scope # c
              [] t = "adapter_attempt" ->
                     /\ DOMAIN d = { "adapter", "accepted", "token_digest" }
                     /\ d.adapter = MockAdapterName
                     /\ d.accepted \in BOOLEAN
                     /\ d.token_digest \in Digests
              [] t = "integrity_state_change" ->
                     /\ DOMAIN d = { "new_state" }
                     /\ d.new_state \in IntegrityStates
              [] t = "stop_event" ->
                     /\ DOMAIN d = { "tokens_revoked" }
                     /\ d.tokens_revoked \in 0..Len(tokens)
              [] OTHER -> FALSE

\* A call of Execute has returned the adapter's output, and the ledger holds
\* its decision, token and attempt together with a STOP and a change of the
\* integrity state.
MechanicsOnly_Witness ==
    /\ last.kind = "execute" /\ last.resp.Success /\ last.resp.Content # <<>>
    /\ \A t \in { "cdi_decision", "token_mint", "adapter_attempt",
                   "integrity_state_change", "stop_event" } : ReceiptsOf(t) # {}

\* C19: quarantine is never readable. In every state of the Manager reached by
\* Write, Read and PromoteFromQuarantine calls, Read("quarantine", id) fails
\* with the write-only error for every id, promoted ids included, and every
\* partition has the policy NewManager gave it.
QuarantineNeverReadable ==
    /\ \A id \in MemoryIds :
           Read(memory, PartitionQuarantine, id).err = "partition is write-only"
    /\ (last.kind = "read" /\ last.args[1] = PartitionQuarantine) =>
           /\ last.err = "partition is write-only"
           /\ last.resp.Content = NoEntry.Content
    /\ DOMAIN memory = DOMAIN NewManager
    /\ \A p \in DOMAIN memory : memory[p].Policy = NewManager[p].Policy

\* Read has refused an id of the quarantine that has been promoted.
QuarantineNeverReadable_Witness ==
    /\ last.kind = "read" /\ last.args[1] = PartitionQuarantine
    /\ last.args[2] \in history.promoted
    /\ last.args[2] \in DOMAIN memory[PartitionDurable].Entries
    /\ last.err = "partition is write-only"

\* The durable entries that are verified come from a promotion: the id has
\* been promoted with a record, and the entry has the content and the content
\* hash of the quarantine entry.
VerifiedByPromotion ==
    \A id \in DOMAIN memory[PartitionDurable].Entries :
        memory[PartitionDurable].Entries[id].Verified =>
            /\ id \in history.promoted
            /\ id \in DOMAIN memory[PartitionQuarantine].Entries
            /\ memory[PartitionDurable].Entries[id].Content =
                   memory[PartitionQuarantine].Entries[id].Content
            /\ memory[PartitionDurable].Entries[id].ContentHash =
                   memory[PartitionQuarantine].Entries[id].ContentHash

\* C20: no implicit promotion. A durable entry is verified only if a
\* PromoteFromQuarantine call with a record that is not empty succeeded for its
\* id, and then it has the quarantine entry's content and content hash; a call
\* with an empty record or with an id that is not in quarantine returns an
\* error and leaves the partitions as they were.
NoImplicitPromotion ==
    [][ /\ VerifiedByPromotion /\ VerifiedByPromotion'
        /\ (last'.kind = "promote" /\ last'.call # last.call) =>
               /\ (last'.args[2] = ""
                       \/ last'.args[1] \notin DOMAIN memory[PartitionQuarantine].Entries) =>
                      last'.err # ""
               /\ last'.err # "" => memory' = memory ]_vars

\* A promotion without a record has been refused after another had made a
\* verified durable entry.
NoImplicitPromotion_Witness ==
    /\ last.kind = "promote" /\ last.args[2] = "" /\ last.err # ""
    /\ \E id \in DOMAIN memory[PartitionDurable].Entries :
           memory[PartitionDurable].Entries[id].Verified


\* The partitions NewManager makes append-only: provenance, quarantine, evidence.
AppendOnlyPartitions == { p \in DOMAIN NewManager : NewManager[p].Policy.AppendOnly }

\* C21: append-only partitions reject overwrite. For every append-only
\* partition and every id it holds, a later Write to that partition and id
\* returns the append-only error, and the entry keeps the content and the
\* content hash of the first write in every later state (promotions included).
AppendOnlyRejectsOverwrite ==
    [][ \A p \in AppendOnlyPartitions : \A id \in DOMAIN memory[p].Entries :
            /\ id \in DOMAIN memory'[p].Entries
            /\ memory'[p].Entries[id].Content = memory[p].Entries[id].Content
            /\ memory'[p].Entries[id].ContentHash = memory[p].Entries[id].ContentHash
            /\ memory'[p].Entries[id].ContentHash = Sha256(memory[p].Entries[id].Content)
            /\ (last'.kind = "write" /\ last'.call # last.call
                    /\ last'.args[1] = p /\ last'.args[2] = id) =>
                   /\ last'.err = "partition is append-only"
                   /\ memory' = memory ]_vars

\* A second Write of an id of provenance, with another content, has been
\* refused and the entry has the first content.
AppendOnlyRejectsOverwrite_Witness ==
    /\ last.kind = "write" /\ last.args[1] = PartitionProvenance
    /\ last.err = "partition is append-only"
    /\ memory[PartitionProvenance].Entries[last.args[2]].Content # last.args[3]

\* The partitions NewManager gives RequireCapability: durable, commitments, evidence.
CapabilityPartitions == { p \in DOMAIN NewManager : NewManager[p].Policy.RequireCapability }

\* C22: capability-gated partitions. Write and Read take a partition, an id
\* (and a content and metadata) and no capability, so no caller presents one:
\* every Write to and every Read from a partition with RequireCapability is
\* refused and leaves the partitions unchanged.
CapabilityGated ==
    [][ (last'.kind \in { "write", "read" } /\ last' # last
            /\ last'.args[1] \in CapabilityPartitions) =>
           /\ last'.err # ""
           /\ memory' = memory ]_vars


\* The lines of audit.log are chained: every line's prev is the hash of the
\* line before it.
ChainLinked(lines) == \A i \in 2..Len(lines) : lines[i].prev = lines[i - 1].hash

\* Every line's hash is SHA-256(prev|kind|msg|ts) of the fields the line holds.
HashesRecompute(lines) ==
    \A i \in DOMAIN lines :
        lines[i].hash = sha256Hex(<<lines[i].prev, lines[i].kind, lines[i].msg, lines[i].ts>>)

\* C28: the persisted audit file is a valid hash chain in every reachable
\* state: every line's prev is the hash of the line before it, every line's
\* hash is that of its own stored fields, and the Audit's head is the hash of
\* the last line of the file.
PersistedChainValid ==
    /\ ChainLinked(app.disk.lines)
    /\ HashesRecompute(app.disk.lines)
    /\ app.disk.lines # <<>> => app.head = readLastHash(app.disk)

\* ------------------------------------------------------------ gateway (Java)
\* C23: consent tokens are single use: whatever the interleaving of the
\* requests and however much time passes, at most one request that presents
\* a given consent token is allowed.
ConsentSingleUse ==
    \A i, j \in DOMAIN app.effects :
        i # j => app.effects[i].consent # app.effects[j].consent

\* The same for requests that spend at most the difference of the two TTLs
\* between the expiry check and the nonce check.
ConsentSingleUseUnstalled ==
    \A i, j \in DOMAIN app.effects :
        /\ i # j
        /\ \A k \in {i, j} : app.effects[k].at - app.effects[k].started
                                 <= nonceTtlSeconds - consentTtlSeconds
        => app.effects[i].consent # app.effects[j].consent

\* Two requests with one consent token are past the expiry check at once.
ConcurrentSameNonce ==
    /\ app.req["w1"].pc = "verified"
    /\ app.req["w2"].pc = "verified"
    /\ app.req["w1"].consent = app.req["w2"].consent

\* C24: consent is bound to one exact action: every request that was allowed
\* on /v1/ask or /v1/tool/run presented a consent token whose act_hash is the
\* hash of the action reconstructed from that request, and the response to a
\* request whose token has another act_hash is a denial.
ConsentBoundToAction ==
    [][ /\ \A i \in DOMAIN app'.effects :
               app'.effects[i].consent.act_hash
                   = ActHash(app'.effects[i].route, app'.effects[i].body)
        /\ \A w \in Workers :
               /\ app.req[w].pc = "verified"
               /\ app'.req[w].pc = "idle"
               /\ app.req[w].consent.act_hash # ActHash(app.req[w].route, app.req[w].body)
               => /\ app'.resp.decision = "DENY"
                  /\ app'.effects = app.effects ]_vars

\* A token minted for one action has been presented with another action and
\* was rejected for that reason alone.
ConsentBoundToAction_Witness ==
    /\ app.resp.decision = "DENY"
    /\ app.resp.reason = <<"consent act_hash mismatch">>
    /\ Len(app.effects) = 0

\* C25: on /v1/tool/run a tool has executed (Tools.run returned and TOOL_OK
\* was recorded) only if the tool is in the allowlist {echo, time}, the
\* consent token verified, and the capability token has a valid signature,
\* is not expired, has the configured audience and a scope "tool:" + tool;
\* net/http_get has never executed.
ToolExecutesOnlyIfPermitted ==
    \A i \in DOMAIN app.effects :
        LET e == app.effects[i]
            tool == AsString(e.body.tool, null)
        IN  e.route = "tool" =>
                /\ tool \in allowTools
                /\ tool # <<"net/", "http_get">>
                /\ e.consent.sig = SigBox("consent-root", app.gen)
                /\ e.consent.exp >= e.started
                /\ e.consent.aud = consentAudience
                /\ e.consent.act_hash = ActHash("tool", e.body)
                /\ e.cap.sig = SigBox("cap-root", app.gen)
                /\ e.cap.exp >= e.at
                /\ e.cap.aud = capAudience
                /\ \E k \in DOMAIN e.cap.scopes : e.cap.scopes[k] = <<"tool:">> \o tool

\* A tool has executed.
ToolExecutesOnlyIfPermitted_Witness ==
    \E i \in DOMAIN app.effects : app.effects[i].route = "tool"

\* C26: fail-closed on audit unavailability: whenever the audit file becomes
\* unwritable, every request that was allowed on /v1/ask or /v1/tool/run
\* (model stub or tool executed, ALLOW returned) has its audit record, the
\* one its audit_ref names, in the audit file.
AllowedOnlyIfAudited ==
    \A i \in DOMAIN app.effects :
        \E k \in DOMAIN app.disk.lines :
            /\ app.disk.lines[k].hash = app.effects[i].ref
            /\ app.disk.lines[k].kind \in { "ASK_ALLOW", "TOOL_OK" }

\* The results of allow for a key, in the order of the lock.
ServedFor(a, key) == SelectSeq(a.served, LAMBDA r : r.key = key)

\* C27: for every key and every interleaving of concurrent allow(key) calls,
\* the bucket's tokens stay between zero and the capacity c = max(5, rpm);
\* of the requests made from a full bucket within one refill window the first
\* c are allowed and the (c+1)th is rejected; and a request made a full
\* refill interval after the bucket was last refilled is allowed.
RateLimiterContract ==
    [][ LET c == Cap(app.rpm)
        IN  /\ \A key \in DOMAIN app'.map :
                   /\ app'.map[key].tokens >= 0
                   /\ app'.map[key].tokens <= c * PerMinute
            /\ \A key \in DOMAIN app'.map :
                   LET s == ServedFor(app', key)
                   IN  \A k \in 1..Len(s) :
                           /\ k <= c + 1
                           /\ \A j \in 1..k : /\ s[j].now >= s[1].now
                                              /\ s[j].now < s[1].now + RefillInterval(c)
                           => (s[k].ok <=> k <= c)
            /\ \A w \in Workers :
                   /\ app.req[w].pc = "allow"
                   /\ app'.req[w].pc = "idle"
                   /\ app.req[w].ts - app.map[<<app.req[w].route, clientIp>>].lastMs
                          >= RefillInterval(c)
                   => app'.served[Len(app'.served)].ok ]_vars

\* The (c+1)th request of a refill window was rejected and the request made
\* a refill interval later was allowed.
RateLimiterContract_Witness ==
    \E key \in DOMAIN app.map :
        LET s == ServedFor(app, key)
            c == Cap(app.rpm)
        IN  /\ Len(s) = c + 2
            /\ \A j \in 1..(c + 1) : s[j].now = s[1].now
            /\ ~s[c + 1].ok
            /\ s[c + 2].now >= s[1].now + RefillInterval(c)
            /\ s[c + 2].ok

\* ------------------------------------------------------------ token digest
\* The arguments of Mint that the claim names, and the instant of the mint.
MintInputs(t) ==
    <<t.Issuer, t.Subject, t.Audience, t.Scope, t.Limits, t.NamespaceID, t.PrincipalID>>
MintInstant(i) == <<tokens[i].IssuedAt, history.tok[i].nsec>>

\* C29: token digest stability: two tokens minted with identical issuer,
\* subject, audience, scope, limits, namespace and principal have different
\* digests when their mint timestamps differ, and identical digests when the
\* timestamps (and the TTL) are identical too.
DigestStability ==
    \A i, j \in DOMAIN tokens :
        MintInputs(tokens[i]) = MintInputs(tokens[j]) =>
            /\ MintInstant(i) # MintInstant(j) => tokens[i].Digest # tokens[j].Digest
            /\ MintInstant(i) = MintInstant(j) /\ tokens[i].TTL = tokens[j].TTL
                   => tokens[i].Digest = tokens[j].Digest

\* The part of it that holds: identical inputs and timestamps give identical
\* digests, and timestamps of different seconds give different digests.
DigestStabilityPerSecond ==
    \A i, j \in DOMAIN tokens :
        MintInputs(tokens[i]) = MintInputs(tokens[j]) =>
            /\ tokens[i].IssuedAt # tokens[j].IssuedAt => tokens[i].Digest # tokens[j].Digest
            /\ MintInstant(i) = MintInstant(j) /\ tokens[i].TTL = tokens[j].TTL
                   => tokens[i].Digest = tokens[j].Digest

\* ------------------------------------------------------------ DecideOutput
\* C30: DecideOutput(content, sensitivity, posture) returns
\* DENY(high_sensitivity_blocked_by_posture) when sensitivity is high and
\* posture >= 2, otherwise DENY(bypass_instruction_in_output) when the content
\* matches the bypass-pattern scan of egress, otherwise ALLOW(output_approved).
OutputDecision ==
    last.kind = "decideOutput" =>
        last.decision =
            IF last.args[2] = "high" /\ last.posture >= 2
            THEN Result(DENY, "high_sensitivity_blocked_by_posture", <<>>, 0)
            ELSE IF containsBypassInstructions(last.args[1])
            THEN Result(DENY, "bypass_instruction_in_output", <<>>, 0)
            ELSE Result(ALLOW, "output_approved", <<>>, 0)

\* The same for contents the scan of egress does not match.
OutputDecisionNoBypass ==
    last.kind = "decideOutput" /\ ~containsBypassInstructions(last.args[1]) =>
        last.decision =
            IF last.args[2] = "high" /\ last.posture >= 2
            THEN Result(DENY, "high_sensitivity_blocked_by_posture", <<>>, 0)
            ELSE Result(ALLOW, "output_approved", <<>>, 0)

\* ------------------------------------------------------------------ egress
\* C31: no instruction smuggling on egress: whatever the artifact, the
\* posture level and the leak budget, the Content that cif.Egress returns,
\* and so the Content of a successful Execute response, contains none of the
\* bypass phrases, in any case of letters.
NoSmugglingOnEgress ==
    last.kind \in { "egress", "execute" } /\ last.resp.returned /\ last.resp.Success
        => \A p \in BypassPatterns : ~Contains(ToLower(last.resp.Content), p)

\* Egress was given a content with a bypass phrase that neither the leak
\* budget nor the posture redacted, and has replaced it.
NoSmugglingOnEgress_Witness ==
    /\ last.kind = "egress"
    /\ containsBypassInstructions(last.args[1])
    /\ last.args[3] <= last.args[4]
    /\ ~shouldRedactByPosture(last.args[2], last.posture)
    /\ last.resp.Content = <<"[OUTPUT BLOCKED: bypass instruction pattern detected]">>

\* ----------------------------------------------------------------- posture
\* C32: posture is inverted and monotone: for the same risk or sensitivity
\* value and valid levels a <= b, what needs confirmation at a needs it at b
\* and what egress redacts at a it redacts at b; an unrecognised value is
\* always restricted, and P0 always requires confirmation.
PostureMonotone ==
    last.kind = "posture" =>
        /\ \A x, y \in last.args :
               /\ x.value = y.value
               /\ IsValid(x.level) /\ IsValid(y.level)
               /\ x.level <= y.level
               => /\ x.confirm => y.confirm
                  /\ x.redact => y.redact
        /\ \A x \in last.args :
               /\ x.value \notin { "low", "medium", "high" } => x.confirm /\ x.redact
               /\ x.level = P0 => x.confirm

\* The same value is free at a valid level and restricted at a higher one,
\* for confirmation and for redaction.
PostureMonotone_Witness ==
    /\ last.kind = "posture"
    /\ \E x, y \in last.args :
           /\ x.value = y.value
           /\ IsValid(x.level) /\ IsValid(y.level)
           /\ x.level < y.level
           /\ ~x.confirm /\ y.confirm
           /\ ~x.redact /\ y.redact

\* ------------------------------------------------------------------- locks
\* C33: lock discipline: in every reachable state of every interleaving, no
\* goroutine holds more than one of the component locks (system state, audit
\* ledger, memory manager, adapter registry) at the same time.
OneLockAtATime == \A t \in Threads : Cardinality(proc[t].held) <= 1

\* The locks exclude each other: no lock has two holders.
LocksExclusive ==
    \A lock \in { StateLock, LedgerLock, MemoryLock, RegistryLock } :
        Cardinality(Holders(lock)) <= 1

\* ----------------------------------------------------------------- Execute
\* C34: DEGRADE is a constrained success: a call of Execute that the decision
\* engine answered with DEGRADE, with the mock adapter registered and no STOP,
\* no change of the integrity state and no expiry in between, returns
\* Success = true, having invoked the adapter exactly once under a token
\* limited to the degraded scope.
DegradeIsSuccess ==
    /\ last.kind = "execute" /\ last.resp.returned
    /\ last.decision.Decision = DEGRADE
    /\ MockAdapterName \in adapters
    /\ history.stops = 0
    /\ last.tok # 0 /\ now <= tokens[last.tok].ExpiresAt
    => /\ last.resp.Success
       /\ Cardinality({ i \in DOMAIN invocations : invocations[i].call = last.call }) = 1
       /\ tokens[last.tok].Scope = last.decision.DegradedScope

\* What does hold of such a call: the token is limited to the degraded scope,
\* the adapter refuses it for its scope, and the call fails.
DegradeIsRefused ==
    /\ last.kind = "execute" /\ last.resp.returned
    /\ last.decision.Decision = DEGRADE
    /\ MockAdapterName \in adapters
    /\ history.stops = 0
    /\ last.tok # 0 /\ now <= tokens[last.tok].ExpiresAt
    => /\ ~last.resp.Success
       /\ last.err = "no scope for adapter"
       /\ \A i \in DOMAIN invocations : invocations[i].call # last.call
       /\ tokens[last.tok].Scope = last.decision.DegradedScope

\* The adapter_attempt receipts of the call that returned last, with
\* accepted = false and the digest of the call's token.
FailedAttempts ==
    { i \in DOMAIN receipts :
        /\ receipts[i].EventType = "adapter_attempt"
        /\ receipts[i].call = last.call
        /\ receipts[i].EventData.accepted = FALSE
        /\ receipts[i].EventData.token_digest = tokens[last.tok].Digest }

\* kernelExecute failed in the call that returned last, which had minted a token.
AdapterCallFailed ==
    /\ last.kind = "execute" /\ last.resp.returned
    /\ last.tok # 0
    /\ ~last.resp.Success
    /\ Len(last.resp.Error) > 0 /\ last.resp.Error[1] = "kernel_execute_failed"

\* C35: every failed adapter attempt is recorded: when Execute has minted a
\* token and the adapter call does not succeed, the ledger holds exactly one
\* adapter_attempt receipt of the call with accepted = false and the token's
\* digest when Execute returns.
FailedAttemptRecorded ==
    AdapterCallFailed => Cardinality(FailedAttempts) = 1

\* What does hold: the failures that Registry.Invoke reports are recorded once;
\* the one kernelExecute finds itself, the revoked token, is not recorded.
FailedAttemptRecordedUnlessRevoked ==
    AdapterCallFailed =>
        Cardinality(FailedAttempts) =
            IF last.err = "token revoked - STOP dominance" THEN 0 ELSE 1

\* ------------------------------------------------------ decisions audited
\* The cdi_decision receipts of the call that returned last.
DecisionReceipts ==
    { i \in DOMAIN receipts :
        receipts[i].EventType = "cdi_decision" /\ receipts[i].call = last.call }

\* The call that returned last came to step 6, the output decision.
ReachedOutputDecision ==
    \E k \in DOMAIN last.resp.AuditTrail :
        last.resp.AuditTrail[k] = "cdi_output_decision_start"

\* A call of Execute in which Decide answered has returned.
DecidedCallReturned ==
    last.kind = "execute" /\ last.resp.returned /\ last.decision # NoDecision

\* Execute's half of C36: one receipt with the action decision's value, posture
\* and input hash, and one more when the call came to the output decision.
ExecuteDecisionsAudited ==
    DecidedCallReturned =>
        /\ Cardinality(DecisionReceipts) = IF ReachedOutputDecision THEN 2 ELSE 1
        /\ \E i \in DecisionReceipts :
              /\ receipts[i].EventData.decision = last.decision.Decision
              /\ receipts[i].EventData.input_hash = last.labeled.InputHash
              /\ "posture" \in DOMAIN receipts[i].EventData

\* The receipts of the given type among those a call of ExecuteCorridor appended.
CorridorAppended(eventType) ==
    { i \in (Len(corridor.receipts) + 1)..Len(corridor'.receipts) :
        corridor'.receipts[i].EventType = eventType }

\* The minimal pipeline's half of C36: a call of ExecuteCorridor appends one
\* CDI_ACTION receipt and, unless it was denied before, one CDI_OUTPUT receipt,
\* each with the posture level.
CorridorDecisionsAudited ==
    [][ corridor' # corridor =>
          /\ Cardinality(CorridorAppended("CDI_ACTION")) = 1
          /\ Cardinality(CorridorAppended("CDI_OUTPUT")) =
                 IF corridor'.resp.Denied THEN 0 ELSE 1
          /\ \A i \in CorridorAppended("CDI_ACTION") \cup CorridorAppended("CDI_OUTPUT") :
                 corridor'.receipts[i].PostureLevel =
                     corridor'.resp.system_state.PostureLevel ]_vars

\* C36: every decision call is audited: each run of Execute appends one
\* receipt recording the action decision (value, posture, input hash) and, when
\* it reaches the output decision, one more recording the output decision; each
\* run of ExecuteCorridor appends one CDI_ACTION receipt and, when reached, one
\* CDI_OUTPUT receipt, each with the posture level.
DecisionCallsAudited == []ExecuteDecisionsAudited /\ CorridorDecisionsAudited

\* What does hold of Execute: one receipt per call, with the action decision's
\* value and the input hash and nothing else, also when the output was decided.
ExecuteActionDecisionAudited ==
    DecidedCallReturned =>
        /\ Cardinality(DecisionReceipts) = 1
        /\ \A i \in DecisionReceipts :
              receipts[i].EventData =
                  [ decision |-> last.decision.Decision,
                    input_hash |-> last.labeled.InputHash, output_hash |-> "" ]

\* ---------------------------------------------------------------- ingress
\* The impersonation and pressure markers that text s contains,
\* case-insensitively.
MarkersIn(s) ==
    { p \in ImpersonationPatterns \cup PressurePatterns :
        Contains(ToLower(s), ToLower(p)) }

\* Ingress accepted the raw input and labelled it exactly clean.
AcceptedClean ==
    last.kind = "ingress" /\ last.err = "" /\ last.labeled.TaintLabels = <<"clean">>

\* C37: a request labelled clean is clean after sanitization: the sanitized
\* input of an accepted raw input whose taint labels are exactly {clean}
\* contains no impersonation marker and no pressure marker, also when the raw
\* input contains control characters that sanitization strips.
CleanAfterSanitization ==
    AcceptedClean => MarkersIn(last.labeled.SanitizedInput) = {}

\* What does hold: the raw input of a request labelled clean contains no
\* marker, and neither does the sanitized input when nothing was stripped.
CleanBeforeSanitization ==
    AcceptedClean =>
        /\ MarkersIn(last.args) = {}
        /\ last.labeled.SanitizedInput = last.args
               => MarkersIn(last.labeled.SanitizedInput) = {}

\* ------------------------------------------------- denial and the consent
\* The request of worker w, whose consent token's signature and expiry were
\* checked, is about to be denied for its act_hash or, on /v1/tool/run, by
\* verifyCap.
DeniedForActionOrCap(w) ==
    LET r == app.req[w]
        nowS == app.ms \div 1000
        vc == verifyConsent(app.seen, r.consent, ActHash(r.route, r.body), nowS)
    IN  /\ r.pc = "verified"
        /\ \/ vc.err = <<"consent act_hash mismatch">>
           \/ /\ vc.err = <<>>
              /\ r.route = "tool"
              /\ verifyCap(SigBox("cap-root", app.gen), r.cap,
                           AsString(r.body.tool, null), nowS) # <<>>

\* C38: a denied gateway request does not consume the consent token: when a
\* request with a validly signed, unexpired consent token is denied because
\* its action hash does not match, or on /v1/tool/run because capability
\* verification fails, the nonce cache is unchanged.
DenialKeepsConsent ==
    [][ \A w \in Workers :
            DeniedForActionOrCap(w) /\ app'.req[w].pc = "idle"
            => /\ app'.resp.decision = "DENY"
               /\ app'.seen = app.seen ]_vars

\* What does hold: such a denial stores the token's nonce, so that the token
\* is refused as a replay for as long as the nonce is kept.
DenialConsumesConsent ==
    [][ \A w \in Workers :
            DeniedForActionOrCap(w) /\ app'.req[w].pc = "idle"
            => /\ app'.resp.decision = "DENY"
               /\ app.req[w].consent.nonce \in DOMAIN app'.seen
               /\ app'.seen[app.req[w].consent.nonce] = app.ms \div 1000
               /\ ~checkAndStore(app'.seen, app.req[w].consent.nonce,
                                 app'.ms \div 1000).ok ]_vars

\* ------------------------------------------------- integrity and posture
\* Decide was called on a context at INTEGRITY_OK and returned DENY.
DeniedAtIntegrityOK ==
    /\ last.kind = "decide" /\ last.ctx # NoCtx
    /\ last.ctx.IntegrityState = IntegrityOK
    /\ last.decision.Decision = DENY

\* The context of the last call with the integrity state degraded.
DegradedCtx == [ last.ctx EXCEPT !.IntegrityState = IntegrityDegraded ]

\* C39: degrading integrity never widens what is granted: when Decide returns
\* DENY at INTEGRITY_OK, it returns DENY for the same request, posture,
\* governance and consents at INTEGRITY_DEGRADED.
DegradingNeverWidens ==
    DeniedAtIntegrityOK => Decide(DegradedCtx).Decision = DENY

\* What does hold: every denial at INTEGRITY_OK but the one for an unknown
\* case stays a denial at INTEGRITY_DEGRADED; the unknown case becomes DEGRADE.
DegradingWidensUnknownCase ==
    DeniedAtIntegrityOK =>
        Decide(DegradedCtx).Decision =
            IF last.decision.Reason = "unknown_case" THEN DEGRADE ELSE DENY

\* The calls in which the decision engine granted something.
Granted == { c \in Calls : c.decision.Decision \in {ALLOW, DEGRADE} }

\* C40: the decision engine enforces posture legality: Decide returns ALLOW or
\* DEGRADE only at a valid posture P1..P4 and DENY at every other integer
\* posture, so that Execute never mints a token or invokes an adapter at an
\* invalid posture.
PostureLegality ==
    /\ \A c \in Granted : IsValid(c.ctx.PostureLevel)
    /\ tokens # <<>> => IsValid(PostureLevel)
    /\ invocations # <<>> => IsValid(PostureLevel)

\* What does hold: Decide denies at posture 0 only; at the other invalid
\* postures it decides as at a valid one, and Execute mints a token.
OnlyUndefinedPostureDenied ==
    /\ \A c \in Granted : c.ctx.PostureLevel # P0
    /\ \A c \in Calls :
           c.decision # NoDecision /\ c.ctx.PostureLevel # P0
           => c.decision.Decision = Decide([ c.ctx EXCEPT !.PostureLevel = P1 ]).Decision
    /\ tokens # <<>> => PostureLevel # P0

\* What the token's posture bounds stop: an adapter call above P4.
NoInvocationAboveP4 == invocations # <<>> => PostureLevel # P0 /\ PostureLevel <= P4

====
